---- MODULE Spec2Model ----
(***************************************************************************)
(* Cosmoglobe sky model: the Model container (sky/model.py), component     *)
(* emission dispatch (sky/base.py) and the chain loader                    *)
(* (sky/chain/model.py).                                                   *)
(***************************************************************************)
EXTENDS Integers, Sequences, FiniteSets, TLC

\* ------------------------------------------------------------------ bounds
MaxNside == 3        \* component resolutions are 1..MaxNside, to_nside targets 0..MaxNside
MaxFreqs == 2        \* a frequency list holds 1..MaxFreqs entries
MaxInitComps == 1    \* Model(components=[...]) is given at most this many components
MantissaBits == 3    \* significant bits kept by a floating-point operation

\* ------------------------------------------------------------- value domain
\* Component names that occur as chain groups / user components.
Names == {"cmb", "dust"}
\* The Model object's own instance attributes (set in __init__).
ModelAttrs == {"nside", "components"}
AttrNames == Names \cup ModelAttrs

\* Python values held by attributes of the Model instance, tagged by type.
None == [t |-> "None"]
Absent == [t |-> "absent"]
IntVal(n) == [t |-> "int", v |-> n]
CompVal(c) == [t |-> "comp", c |-> c]
DictVal(d) == [t |-> "dict", d |-> d]

\* A sky component: its name, the resolution of its amp map, whether amp has
\* three rows (polarized) and an amplitude value.
AmpValues == {1, 2}
ComponentsNamed(S) == [name : S, nside : 1..MaxNside, pol : BOOLEAN, amp : AmpValues]
Component == ComponentsNamed(Names)

\* hp.get_nside(component.amp)
GetNside(component) == component.nside

\* _Component._is_polarized: amp.shape[0] == 3
IsPolarizedComp(component) == component.pol

\* ---------------------------------------------------------------- dict
\* A Python dict: insertion-ordered sequence of [key, val] entries, keys unique.
DictKeys(d) == {d[i].key : i \in DOMAIN d}
DictHas(d, k) == k \in DictKeys(d)
DictIndex(d, k) == CHOOSE i \in DOMAIN d : d[i].key = k
DictGet(d, k) == d[DictIndex(d, k)].val
DictSet(d, k, v) ==
    IF DictHas(d, k) THEN [d EXCEPT ![DictIndex(d, k)].val = v]
    ELSE Append(d, [key |-> k, val |-> v])
DictDel(d, k) == SelectSeq(d, LAMBDA e : e.key # k)
DictKeySeq(d) == [i \in DOMAIN d |-> d[i].key]

\* The elements of a sequence.
SeqRange(s) == {s[i] : i \in DOMAIN s}

\* ---------------------------------------------------------------- state
VARIABLES
    attrs,      \* the Model instance's __dict__: attribute name -> value
    last,       \* the last call on the model: operation, arguments, outcome
    chain       \* the chain loader's call record (see ModelFromChain)

vars == <<attrs, last, chain>>

SelfNside(a) == a["nside"]
SelfComponents(a) == a["components"]

\* Outcome of a method body: the instance's attributes afterwards and the
\* exception raised ("none" when the method returned).
Outcome(a, e) == [attrs |-> a, err |-> e]

\* Model.__init__ before the component loop: self.nside = nside; self.components = {}
NewModel(nside) ==
    [k \in AttrNames |->
        IF k = "nside" THEN nside
        ELSE IF k = "components" THEN DictVal(<<>>)
        ELSE Absent]

\* Model._add_component with the resolution check left out (mutation).
AddComponentNoNsideCheck(a, component) ==
    LET name == component.name
        nside == GetNside(component)
    IN  IF DictHas(SelfComponents(a).d, name) THEN Outcome(a, "KeyError")
        ELSE LET a1 == IF SelfNside(a) = None
                       THEN [a EXCEPT !["nside"] = IntVal(nside)] ELSE a
                 a2 == [a1 EXCEPT ![name] = CompVal(component)]
             IN  Outcome([a2 EXCEPT !["components"] =
                            DictVal(DictSet(SelfComponents(a2).d, name, component))],
                         "none")

\* Model._add_component with the duplicate-name check left out (mutation).
AddComponentNoDupCheck(a, component) ==
    LET name == component.name
        nside == GetNside(component)
    IN  IF IntVal(nside) # SelfNside(a) /\ SelfNside(a) # None
        THEN Outcome(a, "NsideError")
        ELSE LET a1 == [a EXCEPT !["nside"] = IntVal(nside)]
                 a2 == [a1 EXCEPT ![name] = CompVal(component)]
             IN  Outcome([a2 EXCEPT !["components"] =
                            DictVal(DictSet(SelfComponents(a2).d, name, component))],
                         "none")

\* Model._add_component with the resolution check placed after the stores (mutation).
AddComponentLateCheck(a, component) ==
    LET name == component.name
        nside == GetNside(component)
    IN  IF DictHas(SelfComponents(a).d, name) THEN Outcome(a, "KeyError")
        ELSE LET a2 == [a EXCEPT ![name] = CompVal(component)]
                 a3 == [a2 EXCEPT !["components"] =
                            DictVal(DictSet(SelfComponents(a2).d, name, component))]
             IN  IF IntVal(nside) # SelfNside(a) /\ SelfNside(a) # None
                 THEN Outcome(a3, "NsideError")
                 ELSE Outcome([a3 EXCEPT !["nside"] = IntVal(nside)], "none")

\* Model._add_component with nside always overwritten by the component's (mutation).
AddComponentAdopt(a, component) ==
    LET name == component.name
        nside == GetNside(component)
    IN  IF DictHas(SelfComponents(a).d, name) THEN Outcome(a, "KeyError")
        ELSE LET a1 == [a EXCEPT !["nside"] = IntVal(nside)]
                 a2 == [a1 EXCEPT ![name] = CompVal(component)]
             IN  Outcome([a2 EXCEPT !["components"] =
                            DictVal(DictSet(SelfComponents(a2).d, name, component))],
                         "none")

\* Model._add_component (the isinstance check is on the type of the argument;
\* the arguments drawn here are components).
AddComponent(a, component) ==
    LET name == component.name
        nside == GetNside(component)
    IN  \* `name in self.components`
        IF SelfComponents(a).t = "absent" THEN Outcome(a, "AttributeError")
        ELSE IF SelfComponents(a).t # "dict" THEN Outcome(a, "TypeError")
        ELSE IF DictHas(SelfComponents(a).d, name) THEN Outcome(a, "KeyError")
        \* `nside != self.nside`
        ELSE IF SelfNside(a).t = "absent" THEN Outcome(a, "AttributeError")
        ELSE IF IntVal(nside) # SelfNside(a) /\ SelfNside(a) # None
        THEN Outcome(a, "NsideError")
        ELSE LET a1 == IF IntVal(nside) # SelfNside(a)
                       THEN [a EXCEPT !["nside"] = IntVal(nside)] ELSE a
                 \* setattr(self, name, component)
                 a2 == [a1 EXCEPT ![name] = CompVal(component)]
             IN  \* self.components[name] = component
                 IF SelfComponents(a2).t # "dict" THEN Outcome(a2, "TypeError")
                 ELSE Outcome([a2 EXCEPT !["components"] =
                                 DictVal(DictSet(SelfComponents(a2).d, name, component))],
                              "none")

\* Model.__delitem__ deleting only the attribute, not the mapping entry (mutation).
DelItemKeepEntry(a, name) ==
    IF ~DictHas(SelfComponents(a).d, name) THEN Outcome(a, "KeyError")
    ELSE Outcome([a EXCEPT ![name] = Absent], "none")

\* Model.__delitem__ that also forgets the resolution when the model empties (mutation).
DelItemResetNside(a, name) ==
    IF ~DictHas(SelfComponents(a).d, name) THEN Outcome(a, "KeyError")
    ELSE LET d == DictDel(SelfComponents(a).d, name)
             a1 == [a EXCEPT ![name] = Absent, !["components"] = DictVal(d)]
         IN  Outcome(IF d = <<>> THEN [a1 EXCEPT !["nside"] = None] ELSE a1, "none")

\* Model.__delitem__
DelItem(a, name) ==
    IF SelfComponents(a).t = "absent" THEN Outcome(a, "AttributeError")
    ELSE IF SelfComponents(a).t # "dict" THEN Outcome(a, "TypeError")
    ELSE IF ~DictHas(SelfComponents(a).d, name) THEN Outcome(a, "KeyError")
    \* delattr(self, name)
    ELSE IF a[name].t = "absent" THEN Outcome(a, "AttributeError")
    ELSE LET a1 == [a EXCEPT ![name] = Absent]
         IN  \* del self.components[name]
             IF SelfComponents(a1).t # "dict" THEN Outcome(a1, "AttributeError")
             ELSE Outcome([a1 EXCEPT !["components"] =
                             DictVal(DictDel(SelfComponents(a1).d, name))],
                          "none")

\* Model.__init__: the components are added one by one; an exception leaves the
\* constructor and no instance results.
RECURSIVE AddAll(_, _)
AddAll(o, components) ==
    IF components = <<>> \/ o.err # "none" THEN o
    ELSE AddAll(AddComponent(o.attrs, Head(components)), Tail(components))

ModelInit(components, nside) == AddAll(Outcome(NewModel(nside), "none"), components)


\* ------------------------------------------------------------ resampling
\* hp.isnsideok(nside, nest=True): a positive power of two.
IsNsideOk(nside) == nside > 0 /\ \E k \in 0..nside : 2^k = nside

\* Component.to_nside: the component re-pixelizes its maps to new_nside.
CompToNside(component, new_nside) == [component EXCEPT !.nside = new_nside]

\* The attributes after every component of the mapping d took to_nside(new_nside):
\* the mapping's values and the attributes of the same names are the same objects.
ResampleAll(a, new_nside) ==
    LET d == SelfComponents(a).d
        d2 == [i \in DOMAIN d |-> [d[i] EXCEPT !.val = CompToNside(d[i].val, new_nside)]]
    IN  [k \in AttrNames |->
            IF k = "components" THEN DictVal(d2)
            ELSE IF a[k].t = "comp" /\ DictHas(d, k) /\ DictGet(d, k) = a[k].c
                 THEN CompVal(CompToNside(a[k].c, new_nside))
            ELSE a[k]]

\* Outcome of to_nside: attributes, exception, and the names of the components
\* whose to_nside was called, in call order.
NsideOutcome(a, e, calls) == [attrs |-> a, err |-> e, calls |-> calls]

\* Model.to_nside that sets self.nside before validating (mutation).
ToNsideSetFirst(a, new_nside) ==
    IF IntVal(new_nside) = SelfNside(a) THEN NsideOutcome(a, "none", <<>>)
    ELSE LET a1 == [a EXCEPT !["nside"] = IntVal(new_nside)]
         IN  IF ~IsNsideOk(new_nside) THEN NsideOutcome(a1, "ValueError", <<>>)
             ELSE NsideOutcome(ResampleAll(a1, new_nside), "none",
                               DictKeySeq(SelfComponents(a1).d))

\* Model.to_nside
ToNside(a, new_nside) ==
    IF SelfNside(a).t = "absent" THEN NsideOutcome(a, "AttributeError", <<>>)
    ELSE IF IntVal(new_nside) = SelfNside(a) THEN NsideOutcome(a, "none", <<>>)
    ELSE IF ~IsNsideOk(new_nside) THEN NsideOutcome(a, "ValueError", <<>>)
    ELSE LET a1 == [a EXCEPT !["nside"] = IntVal(new_nside)]
         IN  \* `for comp in self`: iter(self.components.values())
             IF SelfComponents(a1).t # "dict" THEN NsideOutcome(a1, "AttributeError", <<>>)
             ELSE NsideOutcome(ResampleAll(a1, new_nside), "none",
                               DictKeySeq(SelfComponents(a1).d))


\* -------------------------------------------------------------- emission
\* A frequency argument: nd = 0 is a scalar quantity, nd = 1 a list; v holds
\* the values (freq.size = Len(v)).
ScalarFreq(f) == [nd |-> 0, v |-> <<f>>]
ListFreq(fs) == [nd |-> 1, v |-> fs]
\* A bandpass argument: None or a profile array.
ArrayVal(b) == [t |-> "array", v |-> b]
\* A quantity array by its shape and its values in row order; the shape <<>>
\* is a scalar.
ShapedArray(shape, v) == [t |-> "ndarray", shape |-> shape, v |-> v]

\* _Component._reshape_freq_ref keeping the catalog shape of three values
\* (mutation).
ReshapeFreqRefFlat(freq_ref) ==
    IF freq_ref = None THEN [err |-> "none", ret |-> None]
    ELSE IF Len(freq_ref.v) = 1 THEN [err |-> "none", ret |-> freq_ref]
    ELSE IF Len(freq_ref.v) = 2
    THEN [err |-> "none",
          ret |-> ShapedArray(<<3, 1>>, <<freq_ref.v[1], freq_ref.v[2], freq_ref.v[2]>>)]
    ELSE IF Len(freq_ref.v) = 3 THEN [err |-> "none", ret |-> freq_ref]
    ELSE [err |-> "ValueError", ret |-> None]

\* _Component._reshape_freq_ref; freq_ref.size is the number of values.
ReshapeFreqRef(freq_ref) ==
    IF freq_ref = None THEN [err |-> "none", ret |-> None]
    ELSE IF Len(freq_ref.v) = 1 THEN [err |-> "none", ret |-> freq_ref]
    ELSE IF Len(freq_ref.v) = 2
    THEN [err |-> "none",
          ret |-> ShapedArray(<<3, 1>>, <<freq_ref.v[1], freq_ref.v[2], freq_ref.v[2]>>)]
    ELSE IF Len(freq_ref.v) = 3
    THEN [err |-> "none", ret |-> ShapedArray(<<3, 1>>, freq_ref.v)]
    ELSE [err |-> "ValueError", ret |-> None]

RECURSIVE SumSeq(_)
SumSeq(s) == IF s = <<>> THEN 0 ELSE Head(s) + SumSeq(Tail(s))

\* The rows of a component's amp map: 3 when polarized (I, Q, U), else 1.
AmpRows(component) ==
    IF IsPolarizedComp(component)
    THEN <<component.amp, component.amp + 1, component.amp + 2>>
    ELSE <<component.amp>>

\* Floating-point rounding of the positive rational num/den: the nearest value
\* with MantissaBits significant bits, ties to the even significand. ulp is
\* the unit in the last place of the result and q the significand rounded down.
RoundFloat(num, den) ==
    CHOOSE r \in
        UNION {{IF \/ 2 * (num - q * den * ulp) < den * ulp
                   \/ 2 * (num - q * den * ulp) = den * ulp /\ q % 2 = 0
                THEN q * ulp ELSE (q + 1) * ulp :
                  q \in {num \div (den * ulp)}} :
               ulp \in {2^e : e \in {k \in 0..16 :
                                       /\ 2^(MantissaBits - 1 + k) * den <= num
                                       /\ num < 2^(MantissaBits + k) * den}}} : TRUE

\* `x += y` and `x / n` on floating-point arrays of positive values,
\* elementwise.
FloatAdd(x, y) == RoundFloat(x + y, 1)
FloatDiv(x, n) == RoundFloat(x, n)

\* Floating-point rounding of the integer x of either sign: zero and the
\* integers of up to MantissaBits bits are exact, and rounding is symmetric in
\* the sign.
RoundInt(x) ==
    IF x < 0 THEN IF -x < 2^MantissaBits THEN x ELSE -RoundFloat(-x, 1)
    ELSE IF x < 2^MantissaBits THEN x ELSE RoundFloat(x, 1)
FloatMul(x, y) == RoundInt(x * y)

\* _get_freq_scaling: the SED of the component at one frequency.
FreqScaling(freq) == 2 * freq.v[1]

\* np.trapz(y, x)
Trapz(y, x) ==
    SumSeq([i \in 1..(Len(x) - 1) |-> ((x[i + 1] - x[i]) * (y[i] + y[i + 1])) \div 2])

\* np.trapz(freq_scaling*bandpass, freqs): the SED integrated over the
\* bandpass profile.
BandpassScaling(freqs, profile) ==
    Trapz([i \in DOMAIN freqs.v |-> FreqScaling(ScalarFreq(freqs.v[i])) * profile[i]],
          freqs.v)

\* The class of a component (diffuse unless stated) and the number of its
\* spatially varying spectral parameters, len(bp.get_interpolation_grid(...))
\* (none unless stated).
Kind(component) == IF "kind" \in DOMAIN component THEN component.kind ELSE "diffuse"
GridDim(component) == IF "d" \in DOMAIN component THEN component.d ELSE 0

\* Outcome of _get_bandpass_scaling: exception, the method used, the scaling.
ScalingOutcome(e, method, v) == [err |-> e, method |-> method, v |-> v]

\* _get_bandpass_scaling with the last supported case taken for every larger
\* grid (mutation).
GetBandpassScalingNoLimit(component, freqs, profile) ==
    IF GridDim(component) = 0
    THEN ScalingOutcome("none", "trapz", BandpassScaling(freqs, profile))
    ELSE IF GridDim(component) = 1
    THEN ScalingOutcome("none", "interp1d", BandpassScaling(freqs, profile))
    ELSE ScalingOutcome("none", "interp2d", BandpassScaling(freqs, profile))

\* _Component._get_bandpass_scaling: the interpolations return the integrated
\* SED per pixel, here the same for all pixels.
GetBandpassScaling(component, freqs, profile) ==
    IF GridDim(component) = 0
    THEN ScalingOutcome("none", "trapz", BandpassScaling(freqs, profile))
    ELSE IF GridDim(component) = 1
    THEN ScalingOutcome("none", "interp1d", BandpassScaling(freqs, profile))
    ELSE IF GridDim(component) = 2
    THEN ScalingOutcome("none", "interp2d", BandpassScaling(freqs, profile))
    ELSE ScalingOutcome("NotImplementedError", "none", None)

\* The emission of a component call: exception, the path taken, the warnings
\* emitted, the scaling method, the rows smoothed, the point-source deposits
\* made, and the rows of the map.
EmissionOf(component, e, path, warnings, method, cols, deposits) ==
    [err |-> e, path |-> path, warned |-> ("top-hat" \in SeqRange(warnings)),
     warnings |-> warnings, method |-> method, smoothed |-> {}, deposits |-> deposits,
     name |-> component.name, nside |-> component.nside, cols |-> cols]

\* _DiffuseComponent._get_delta_emission: amp * scaling.
DeltaEmission(component, freq) ==
    EmissionOf(component, "none", "delta", <<>>, "sed",
               [k \in DOMAIN AmpRows(component) |->
                   AmpRows(component)[k] * FreqScaling(freq)], <<>>)

\* The bandpass profile used: a missing bandpass is replaced by a top-hat
\* profile, with a warning.
Profile(freqs, bandpass) ==
    IF bandpass = None THEN [i \in DOMAIN freqs.v |-> 1] ELSE bandpass.v
\* The substitution made silently (mutation).
TopHatWarningSilent(bandpass) == <<>>
TopHatWarning(bandpass) == IF bandpass = None THEN <<"top-hat">> ELSE <<>>

\* _DiffuseComponent._get_bandpass_emission
BandpassEmission(component, freqs, bandpass) ==
    LET s == GetBandpassScaling(component, freqs, Profile(freqs, bandpass))
    IN  IF s.err # "none"
        THEN EmissionOf(component, s.err, "bandpass", TopHatWarning(bandpass),
                        s.method, <<>>, <<>>)
        ELSE EmissionOf(component, "none", "bandpass", TopHatWarning(bandpass),
                        s.method,
                        [k \in DOMAIN AmpRows(component) |-> AmpRows(component)[k] * s.v],
                        <<>>)

\* hp.nside2npix and hp.nside2resol (the latter in the angle unit of fwhm).
NPix(nside) == 12 * nside * nside
PixRes(nside) == 2 \div nside

\* The pixels within r of pixel p (hp.query_disc) and the beam weight at
\* distance r (utils.gaussian_beam_2D), on a ring of pixels.
PixDist(p, q, npix) ==
    IF p >= q THEN (IF p - q <= npix - (p - q) THEN p - q ELSE npix - (p - q))
    ELSE (IF q - p <= npix - (q - p) THEN q - p ELSE npix - (q - p))
QueryDisc(nside, p, r) == {q \in 1..NPix(nside) : PixDist(p, q, NPix(nside)) <= r}
Beam(r, sigma) == 4 * sigma + 8 - r

\* Outcome of _points_to_map: exception, the map, the warnings emitted, and
\* the deposits made, in order: the source and the pixels written.
RasterOutcome(e, map, warnings, deposits) ==
    [err |-> e, map |-> map, warnings |-> warnings, deposits |-> deposits]

\* healpix_map[pixels] = amp: for a pixel given several times the last value
\* assigned stays.
AssignAt(coords, amp, npix) ==
    [p \in 1..npix |->
        IF \E i \in DOMAIN coords : coords[i] = p
        THEN amp[CHOOSE i \in DOMAIN coords :
                    /\ coords[i] = p
                    /\ \A j \in DOMAIN coords : coords[j] = p => j <= i]
        ELSE 0]

\* The value of pixel p after the beam loop over sources 1..n, the sources
\* taken in the order `order`: healpix_map[inds] += amp[idx] * beam(r, sigma),
\* inds the disc of radius r_max around the source; the product and the
\* addition are floating-point operations.
RECURSIVE AddBeams(_, _, _, _, _, _, _, _)
AddBeams(nside, coords, amp, r_max, sigma, order, p, n) ==
    IF n = 0 THEN 0
    ELSE LET prev == AddBeams(nside, coords, amp, r_max, sigma, order, p, n - 1)
             r == PixDist(coords[order[n]], p, NPix(nside))
         IN  IF r > r_max THEN prev
             ELSE RoundInt(prev + FloatMul(amp[order[n]], Beam(r, sigma)))

\* The beam loop depositing every source on every pixel of the map (mutation).
BeamSumNoCut(nside, coords, amp, r_max, sigma) ==
    [p \in 1..NPix(nside) |->
        AddBeams(nside, coords, amp, NPix(nside), sigma, [i \in DOMAIN coords |-> i], p,
                 Len(coords))]

\* The map after the beam loop, which takes the sources in catalog order.
BeamSum(nside, coords, amp, r_max, sigma) ==
    [p \in 1..NPix(nside) |->
        AddBeams(nside, coords, amp, r_max, sigma, [i \in DOMAIN coords |-> i], p,
                 Len(coords))]

\* The deposits of the beam loop, source after source.
BeamDeposits(nside, coords, r_max) ==
    [i \in DOMAIN coords |-> [source |-> i, pixels |-> QueryDisc(nside, coords[i], r_max)]]

\* _points_to_map testing the beam width after the beam loop (mutation).
PointsToMapLateCheck(component, amp, fwhm, sigma) ==
    LET sigma1 == IF sigma = None THEN fwhm ELSE sigma.v
    IN  IF sigma1 = 0
        THEN RasterOutcome("none", AssignAt(component.coords, amp, NPix(component.nside)),
                           <<"no-beam">>,
                           [i \in DOMAIN component.coords |->
                               [source |-> i, pixels |-> {component.coords[i]}]])
        ELSE IF fwhm < PixRes(component.nside)
        THEN RasterOutcome("ValueError", None, <<>>,
                           BeamDeposits(component.nside, component.coords, 2 * fwhm))
        ELSE RasterOutcome("none",
                           BeamSum(component.nside, component.coords, amp, 2 * fwhm, sigma1),
                           <<>>, BeamDeposits(component.nside, component.coords, 2 * fwhm))

\* _PointSourceComponent._points_to_map (n_fwhm = 2). sigma is measured in
\* units of 1/(2 sqrt(2 ln 2)), in which the sigma of a beam equals its fwhm;
\* component.coords holds the pixel of every source (hp.ang2pix of its
\* angular coordinates).
PointsToMap(component, amp, fwhm, sigma) ==
    LET nside == component.nside
        coords == component.coords
        sigma1 == IF sigma = None THEN fwhm ELSE sigma.v
        r_max == 2 * fwhm
    IN  IF sigma1 = 0
        THEN RasterOutcome("none", AssignAt(coords, amp, NPix(nside)), <<"no-beam">>,
                           [i \in DOMAIN coords |-> [source |-> i, pixels |-> {coords[i]}]])
        ELSE IF fwhm < PixRes(nside) THEN RasterOutcome("ValueError", None, <<>>, <<>>)
        ELSE RasterOutcome("none",
                           BeamSum(nside, coords, amp, r_max, sigma1), <<>>,
                           BeamDeposits(nside, coords, r_max))

\* _PointSourceComponent._get_delta_emission
PointDeltaEmission(component, freq, fwhm) ==
    LET m == PointsToMap(component,
                 [i \in DOMAIN component.amp |-> component.amp[i] * FreqScaling(freq)],
                 fwhm, None)
    IN  EmissionOf(component, m.err, "delta", m.warnings, "sed",
                   IF m.err = "none" THEN <<m.map>> ELSE <<>>, m.deposits)

\* _PointSourceComponent._get_bandpass_emission
PointBandpassEmission(component, freqs, bandpass, fwhm) ==
    LET s == GetBandpassScaling(component, freqs, Profile(freqs, bandpass))
        m == PointsToMap(component,
                 [i \in DOMAIN component.amp |-> component.amp[i] * s.v], fwhm, None)
    IN  IF s.err # "none"
        THEN EmissionOf(component, s.err, "bandpass", TopHatWarning(bandpass),
                        s.method, <<>>, <<>>)
        ELSE EmissionOf(component, m.err, "bandpass",
                        TopHatWarning(bandpass) \o m.warnings, s.method,
                        IF m.err = "none" THEN <<m.map>> ELSE <<>>, m.deposits)

\* The smoothing applied to the emission of every kind of component
\* (mutation).
SmoothedAnyKind(component, emission, fwhm) ==
    IF emission.err = "none" /\ fwhm # 0
    THEN [emission EXCEPT !.smoothed = IF IsPolarizedComp(component) THEN {1, 2, 3}
                                       ELSE {1}]
    ELSE emission

\* hp.smoothing is applied to the rows of a diffuse emission when a beam is
\* given: all three rows of a polarized component, the first row otherwise.
Smoothed(component, emission, fwhm) ==
    IF emission.err = "none" /\ fwhm # 0 /\ Kind(component) = "diffuse"
    THEN [emission EXCEPT !.smoothed = IF IsPolarizedComp(component) THEN {1, 2, 3}
                                       ELSE {1}]
    ELSE emission

\* _Component.__call__ choosing the path by the bandpass argument instead of
\* the number of frequencies (mutation).
ComponentCallByBandpass(component, freqs, bandpass, fwhm) ==
    Smoothed(component,
        IF bandpass = None
        THEN IF Kind(component) = "point" THEN PointDeltaEmission(component, freqs, fwhm)
             ELSE DeltaEmission(component, freqs)
        ELSE IF Kind(component) = "point"
             THEN PointBandpassEmission(component, freqs, bandpass, fwhm)
             ELSE BandpassEmission(component, freqs, bandpass),
        fwhm)

\* _Component.__call__: one frequency is a delta peak, several frequencies are
\* integrated over the bandpass; the diffuse emission is smoothed afterwards.
ComponentCall(component, freqs, bandpass, fwhm) ==
    Smoothed(component,
        IF Len(freqs.v) = 1
        THEN IF Kind(component) = "point" THEN PointDeltaEmission(component, freqs, fwhm)
             ELSE DeltaEmission(component, freqs)
        ELSE IF Kind(component) = "point"
             THEN PointBandpassEmission(component, freqs, bandpass, fwhm)
             ELSE BandpassEmission(component, freqs, bandpass),
        fwhm)

\* comp(freq, bandpass, output_unit=...): the call made by the Model, without
\* a beam.
CompCall(component, freqs, bandpass) == ComponentCall(component, freqs, bandpass, 0)

\* np.loadtxt(catalog, usecols=(0,1)): the rows of the file as an array; an
\* axis of length one is squeezed, so a file of one row gives the 1-D array
\* of its two columns.
LoadTxt(catalog) == IF Len(catalog.rows) = 1 THEN catalog.rows[1] ELSE catalog.rows

\* _PointSourceComponent._read_coords; catalog None stands for a path that
\* does not exist.
ReadCoords(component, catalog) ==
    IF catalog = None THEN [err |-> "OSError", ret |-> None]
    ELSE IF Len(LoadTxt(catalog)) = Len(component.amp)
    THEN [err |-> "none", ret |-> LoadTxt(catalog)]
    ELSE [err |-> "ValueError", ret |-> None]

\* Model.is_polarized
IsPolarized(a) ==
    \E i \in DOMAIN SelfComponents(a).d : IsPolarizedComp(SelfComponents(a).d[i].val)

\* Outcome of an emission call: exception, returned value, and the component
\* evaluations made, in call order.
EmissionOutcome(e, ret, log) == [err |-> e, ret |-> ret, log |-> log]

\* As Accumulate, but a one-row emission is added to every row (mutation).
RECURSIVE AccumulateBroadcast(_, _, _)
AccumulateBroadcast(rows, ems, n) ==
    IF n = 0 THEN [k \in 1..rows |-> 0]
    ELSE LET prev == AccumulateBroadcast(rows, ems, n - 1)
         IN  [k \in 1..rows |->
                IF k \in DOMAIN ems[n].cols THEN prev[k] + ems[n].cols[k]
                ELSE prev[k] + ems[n].cols[1]]

\* model_emission after the first n components were accumulated:
\* `model_emission[idx] += col` for every row of the component's emission.
RECURSIVE Accumulate(_, _, _)
Accumulate(rows, ems, n) ==
    IF n = 0 THEN [k \in 1..rows |-> 0]
    ELSE LET prev == Accumulate(rows, ems, n - 1)
         IN  [k \in 1..rows |->
                IF k \in DOMAIN ems[n].cols THEN prev[k] + ems[n].cols[k] ELSE prev[k]]

\* The loop of _get_model_emission over the component emissions `ems`: an
\* exception of a component call leaves the method, and adding a map of
\* another pixel count does not broadcast.
SumEmissions(nside, rows, ems) ==
    IF \E i \in DOMAIN ems : ems[i].err # "none" \/ ems[i].nside # nside
    THEN LET first == CHOOSE i \in DOMAIN ems :
                         /\ ems[i].err # "none" \/ ems[i].nside # nside
                         /\ \A j \in 1..(i - 1) :
                               ems[j].err = "none" /\ ems[j].nside = nside
         IN  EmissionOutcome(IF ems[first].err # "none" THEN ems[first].err
                             ELSE "ValueError",
                             None, SubSeq(ems, 1, first))
    ELSE EmissionOutcome("none",
            [t |-> "map", nside |-> nside, v |-> Accumulate(rows, ems, Len(ems))], ems)

\* Model._get_model_emission
GetModelEmission(a, freq, bandpass) ==
    \* `self.is_polarized` iterates self.components.values()
    IF SelfComponents(a).t # "dict" THEN EmissionOutcome("AttributeError", None, <<>>)
    \* hp.nside2npix(self.nside)
    ELSE IF SelfNside(a).t = "absent" THEN EmissionOutcome("AttributeError", None, <<>>)
    ELSE IF SelfNside(a).t # "int" THEN EmissionOutcome("TypeError", None, <<>>)
    ELSE SumEmissions(SelfNside(a).v, IF IsPolarized(a) THEN 3 ELSE 1,
                      [i \in DOMAIN SelfComponents(a).d |->
                          CompCall(SelfComponents(a).d[i].val, freq, bandpass)])

\* The per-frequency results of the list path: outcomes of
\* _get_model_emission for freqs[1..n], stopping at the first exception.
RECURSIVE EmissionList(_, _, _, _)
EmissionList(a, fs, bandpass, n) ==
    IF n = 0 THEN EmissionOutcome("none", <<>>, <<>>)
    ELSE LET prev == EmissionList(a, fs, bandpass, n - 1)
             this == GetModelEmission(a, ScalarFreq(fs[n]), bandpass)
         IN  IF prev.err # "none" THEN prev
             ELSE IF this.err # "none"
                  THEN EmissionOutcome(this.err, None, prev.log \o this.log)
             ELSE EmissionOutcome("none", Append(prev.ret, this.ret),
                                  prev.log \o this.log)

\* Model.get_emission without the per-frequency branch (mutation).
GetEmissionNoList(a, freq, bandpass) == GetModelEmission(a, freq, bandpass)

\* Model.get_emission
GetEmission(a, freq, bandpass) ==
    IF bandpass = None /\ freq.nd > 0
    THEN LET o == EmissionList(a, freq.v, bandpass, Len(freq.v))
         IN  IF o.err # "none" THEN o
             ELSE EmissionOutcome("none", [t |-> "list", v |-> o.ret], o.log)
    ELSE GetModelEmission(a, freq, bandpass)


\* ---------------------------------------------------------- chain loader
StrVal(x) == [t |-> "str", v |-> x]

\* Component labels a chain file may hold and a request may name.
Labels == {"cmb", "dust", "radio"}
\* Labels registered in the selected sky model (sky_model.components).
Registered == {"cmb", "dust"}
\* Constructor arguments of a component class (get_comp_signature).
ClassArgs == <<"amp", "freq_ref">>

\* str.lower() on the sample selectors drawn here.
Lower(x) == IF x \in {"ALL", "All", "all"} THEN "all" ELSE x

\* One read of the archive: a field of parameters[component] or a sample item
\* of the component.
ParamRead(label, field) == [kind |-> "parameter", comp |-> label, item |-> field]
SampleRead(label, item) == [kind |-> "sample", comp |-> label, item |-> item]

\* Outcome of a loader function: exception, returned value, archive reads made.
LoadOutcome(e, ret, reads) == [err |-> e, ret |-> ret, reads |-> reads]

\* chain_context.get_mappings(component_class): the archive's name of a
\* constructor argument.
Mappings(arg) == IF arg = "freq_ref" THEN "nu_ref" ELSE arg

\* chain.parameters[component][field], chain.mean(item, samples) and
\* chain.get(item, samples=0): the values read, as terms.
ParamValue(label, field) == [op |-> "parameter", comp |-> label, field |-> field]
ChainMean(label, item, samples) ==
    [op |-> "mean", comp |-> label, item |-> item, samples |-> samples]
ChainGet(label, item) == [op |-> "get", comp |-> label, item |-> item, samples |-> 0]

\* hp.alm2map(value, nside, lmax, fwhm, pol): the map of the coefficients,
\* as a term.
Alm2Map(value, nside, lmax, fwhm, pol) ==
    [op |-> "alm2map", of |-> value, nside |-> nside, lmax |-> lmax, fwhm |-> fwhm,
     pol |-> pol]

\* A resolved constructor argument: where the value was found, and the value.
Resolved(arg, from, value) == [arg |-> arg, from |-> from, value |-> value]

\* The transform made for every sample, the maps averaged afterwards
\* (mutation).
AlmValueTransformFirst(ch, nside, label, arg, samples) ==
    ChainMean(label,
              Alm2Map([op |-> "sample", comp |-> label, item |-> Mappings(arg) \o "_alm"],
                      nside, ChainGet(label, Mappings(arg) \o "_lmax"),
                      ParamValue(label, "fwhm"), arg = "amp" /\ ch.rows = 3),
              samples)

\* The value of an argument stored as coefficients: the mean over the samples
\* is taken, then transformed; value.shape[0] is the number of rows of the
\* archive's coefficient items.
AlmValue(ch, nside, label, arg, samples) ==
    Alm2Map(ChainMean(label, Mappings(arg) \o "_alm", samples),
            nside, ChainGet(label, Mappings(arg) \o "_lmax"),
            ParamValue(label, "fwhm"), arg = "amp" /\ ch.rows = 3)

\* The reads made to resolve one constructor argument, and whether it resolved:
\* parameters[component] is looked up first, then the sample items <arg>_alm,
\* <arg>, <arg>_map in that order (a read of a missing item raises ChainKeyError
\* and the next one is tried); coefficients also need <arg>_lmax and the fwhm.
ResolveArg(ch, nside, label, arg, samples) ==
    LET chain_arg == Mappings(arg)
        lookup == <<ParamRead(label, chain_arg)>>
    IN  IF chain_arg \in ch.params
        THEN LoadOutcome("none", Resolved(arg, "parameters", ParamValue(label, chain_arg)),
                         lookup)
        ELSE IF (chain_arg \o "_alm") \in ch.items
        THEN LoadOutcome("none",
                Resolved(arg, "alm", AlmValue(ch, nside, label, arg, samples)),
                lookup \o <<SampleRead(label, chain_arg \o "_alm"),
                            SampleRead(label, chain_arg \o "_lmax"),
                            ParamRead(label, "fwhm")>>)
        ELSE IF chain_arg \in ch.items
        THEN LoadOutcome("none",
                Resolved(arg, "item", ChainMean(label, chain_arg, samples)),
                lookup \o <<SampleRead(label, chain_arg \o "_alm"),
                            SampleRead(label, chain_arg)>>)
        ELSE IF (chain_arg \o "_map") \in ch.items
        THEN LoadOutcome("none",
                Resolved(arg, "map", ChainMean(label, chain_arg \o "_map", samples)),
                lookup \o <<SampleRead(label, chain_arg \o "_alm"),
                            SampleRead(label, chain_arg),
                            SampleRead(label, chain_arg \o "_map")>>)
        ELSE LoadOutcome("ChainKeyError", None,
                lookup \o <<SampleRead(label, chain_arg \o "_alm"),
                            SampleRead(label, chain_arg),
                            SampleRead(label, chain_arg \o "_map")>>)

\* comp_from_chain: the arguments are resolved in signature order; the first
\* failure leaves the function.
RECURSIVE ResolveArgs(_, _, _, _, _)
ResolveArgs(ch, nside, label, samples, n) ==
    IF n = 0 THEN LoadOutcome("none", <<>>, <<>>)
    ELSE LET prev == ResolveArgs(ch, nside, label, samples, n - 1)
             this == ResolveArg(ch, nside, label, ClassArgs[n], samples)
         IN  IF prev.err # "none" THEN prev
             ELSE IF this.err # "none"
                  THEN LoadOutcome(this.err, None, prev.reads \o this.reads)
             ELSE LoadOutcome("none", Append(prev.ret, this.ret),
                              prev.reads \o this.reads)

\* comp_from_chain (sky/chain/model.py); the value returned is the component:
\* its name, its resolution and the constructor arguments resolved.
CompFromChain(ch, nside, label, samples) ==
    LET o == ResolveArgs(ch, nside, label, samples, Len(ClassArgs))
    IN  IF o.err # "none" THEN o
        ELSE LoadOutcome("none", [name |-> label, nside |-> nside, args |-> o.ret],
                         o.reads)

\* The component loop of model_from_chain over components[1..n].
RECURSIVE LoadComponents(_, _, _, _, _)
LoadComponents(ch, nside, components, samples, n) ==
    IF n = 0 THEN LoadOutcome("none", <<>>, <<>>)
    ELSE LET prev == LoadComponents(ch, nside, components, samples, n - 1)
             label == components[n]
             this == CompFromChain(ch, nside, label, samples)
         IN  IF prev.err # "none" THEN prev
             \* sky_model.components[SkyComponentLabel(component)]
             ELSE IF label \notin Registered
                  THEN LoadOutcome("ChainComponentNotFoundError", None, prev.reads)
             ELSE IF this.err # "none"
                  THEN LoadOutcome(this.err, None, prev.reads \o this.reads)
             ELSE LoadOutcome("none", DictSet(prev.ret, label, this.ret),
                              prev.reads \o this.reads)

\* As LoadModel, but requested names that the archive or the sky model lacks
\* are skipped and the components found are returned (mutation).
LoadModelSkipMissing(ch, nside, components, samples) ==
    LET requested == IF components = None THEN ch.components ELSE components.v
        found == SelectSeq(requested,
                     LAMBDA c : c \in Registered
                                /\ \E j \in DOMAIN ch.components : ch.components[j] = c)
        o == LoadComponents(ch, nside, found, samples, Len(found))
    IN  IF o.err # "none" THEN o
        ELSE LoadOutcome("none",
                [t |-> "model", nside |-> nside, components |-> o.ret], o.reads)

\* The part of model_from_chain after the version check.
LoadModel(ch, nside, components, samples) ==
    LET requested == IF components = None THEN ch.components ELSE components.v
    IN  IF \E i \in DOMAIN requested :
              \A j \in DOMAIN ch.components : ch.components[j] # requested[i]
        THEN LoadOutcome("ChainComponentNotFoundError", None, <<>>)
        ELSE LET o == LoadComponents(ch, nside, requested, samples, Len(requested))
             IN  IF o.err # "none" THEN o
                 ELSE LoadOutcome("none",
                         [t |-> "model", nside |-> nside, components |-> o.ret],
                         o.reads)

\* model_from_chain with the version check after the component loop (mutation).
ModelFromChainLateCheck(ch, nside, components, samples) ==
    LET o == LoadModel(ch, nside, components, samples)
    IN  IF samples.t = "str" /\ Lower(samples.v) # "all"
        THEN LoadOutcome("ValueError", None, <<>>)
        ELSE IF ch.version = "OLD"
        THEN LoadOutcome("ChainFormatError", None, o.reads)
        ELSE o

\* model_from_chain (sky/chain/model.py); chain is a Chain object (a path is
\* wrapped into one before anything else is done).
ModelFromChain(ch, nside, components, samples) ==
    LET samples1 == IF samples.t = "str" /\ Lower(samples.v) = "all"
                    THEN None ELSE samples
    IN  IF samples.t = "str" /\ Lower(samples.v) # "all"
        THEN LoadOutcome("ValueError", None, <<>>)
        ELSE IF ch.version = "OLD"
        THEN LoadOutcome("ChainFormatError", None, <<>>)
        ELSE LoadModel(ch, nside, components, samples1)

\* The chain archives drawn: version, component groups, and the fields / sample
\* items every component group holds.
ChainComponentLists == {<<"cmb">>, <<"cmb", "dust">>, <<"cmb", "radio">>}
ChainParamSets == {{}, {"nu_ref"}, {"nu_ref", "amp"}}
ChainItemSets == {{}, {"amp_alm"}, {"amp"}, {"amp_map"}, {"amp_alm", "amp_map"},
                  {"amp_alm", "nu_ref_alm"}}
\* rows: the number of rows of the coefficient items (3 for a polarized
\* component).
Chains == [version : {"OLD", "CURRENT"}, components : ChainComponentLists,
           params : ChainParamSets, items : ChainItemSets, rows : {1, 3}]
SampleArgs == {IntVal(-1), None, StrVal("all"), StrVal("ALL"), StrVal("last")}
ComponentArgs == {None, ArrayVal(<<"cmb">>), ArrayVal(<<"dust">>),
                  ArrayVal(<<"dust", "cmb">>), ArrayVal(<<"radio">>),
                  ArrayVal(<<"cmb", "radio">>)}

\* ------------------------------------------------ chain loader (tools/h5.py)
MaxSamples == 3      \* a chain file holds 1..MaxSamples samples

\* A Python list argument.
ListVal(v) == [t |-> "list", v |-> v]
\* A dict of component classes, by its keys.
ClassDict(keys) == [t |-> "dict", keys |-> keys]

\* Values an item holds in a sample, and the lmax stored with coefficients.
FloatValues == {24, 28}
LmaxValue == 16

\* f'{n:06d}' for the sample numbers drawn.
SampleNames == <<"000000", "000001", "000002", "000003", "000004">>
IntToSample(n) == IF n + 1 \in DOMAIN SampleNames THEN SampleNames[n + 1] ELSE "other"

param_group == "parameters"
IgnoredComps == {"md", "radio", "relquad"}
DefaultComps == {"dust", "synch", "ff", "ame", "cmb"}
\* parameters['nside'] of every component drawn.
NativeNside == 2
\* parameters['nu_ref'] of a component: the reference frequencies of I, Q, U.
NuRefs == {<<2, 1, 1>>, <<1, 2, 3>>}

\* _get_samples: the keys of the file (in name order) without the parameter group.
GetSamples(file) == SelectSeq(file.samples, LAMBDA s : s # param_group)

\* _get_components
GetComponents(file, ignore_comps) ==
    IF ignore_comps THEN SelectSeq(file.comps, LAMBDA c : c \notin IgnoredComps)
    ELSE file.comps

\* _item_alm_exists / _item_map_exists: looked up in the last sample.
ItemAlmExists(file, component, item) == (item \o "_alm") \in file.items
ItemMapExists(file, component, item) == (item \o "_map") \in file.items

\* f[sample][component].get(item)[()]
SampleIndex(file, sample) == CHOOSE i \in DOMAIN file.samples : file.samples[i] = sample
H5Value(file, sample, item) ==
    IF item = "amp_lmax" THEN LmaxValue ELSE file.vals[SampleIndex(file, sample)]
ItemRead(sample, item) == [kind |-> "sample", sample |-> sample, item |-> item]

\* _get_items: the items of one sample. A list for `sample` is no h5py key:
\* the TypeError it raises is caught once and raised again by the fallback.
GetItems(file, sample, component, items) ==
    IF items = <<>> THEN LoadOutcome("none", <<>>, <<>>)
    ELSE IF sample.t # "str" THEN LoadOutcome("TypeError", None, <<>>)
    ELSE IF sample.v \notin SeqRange(file.samples) \/ component \notin SeqRange(file.comps)
    THEN LoadOutcome("KeyError", None, <<>>)
    ELSE IF \E i \in DOMAIN items : items[i] \notin file.items
    THEN LoadOutcome("TypeError", None, <<>>)
    ELSE LoadOutcome("none",
            [i \in DOMAIN items |-> H5Value(file, sample.v, items[i])],
            [i \in DOMAIN items |-> ItemRead(sample.v, items[i])])

\* The running sum of an item over samples[1..n]: the first value starts it,
\* every later one is added in place.
RECURSIVE SumOver(_, _, _, _)
SumOver(file, samples, item, n) ==
    IF n = 1 THEN H5Value(file, samples[1], item)
    ELSE FloatAdd(SumOver(file, samples, item, n - 1), H5Value(file, samples[n], item))

\* The names in the items argument: a list of names or one name.
ItemNames(items) == IF items.t = "list" THEN items.v ELSE <<items.v>>

\* As GetAveragedItems, but a sample read again is not added again (mutation).
GetAveragedItemsNoRepeat(file, samples, component, items) ==
    LET names == ItemNames(items)
        n == Len(samples)
        reads == [k \in 1..(n * Len(names)) |->
                    ItemRead(samples[((k - 1) \div Len(names)) + 1],
                             names[((k - 1) % Len(names)) + 1])]
        first == SelectSeq([i \in 1..n |-> [i |-> i, s |-> samples[i]]],
                           LAMBDA e : \A j \in 1..(e.i - 1) : samples[j] # e.s)
        once == [i \in DOMAIN first |-> first[i].s]
    IN  IF \/ n = 0 \/ names = <<>>
           \/ (\E i \in DOMAIN names : names[i] \notin file.items)
           \/ (\E j \in DOMAIN samples : samples[j] \notin SeqRange(file.samples))
        THEN LoadOutcome("KeyError", None, <<>>)
        ELSE IF items.t = "list"
        THEN LoadOutcome("none",
                [i \in DOMAIN names |->
                    FloatDiv(SumOver(file, once, names[i], Len(once)), n)], reads)
        ELSE LoadOutcome("none", FloatDiv(SumOver(file, once, names[1], Len(once)), n),
                         reads)

\* _get_averaged_items: items is a list of names or one name.
GetAveragedItems(file, samples, component, items) ==
    LET names == ItemNames(items)
        n == Len(samples)
        reads == [k \in 1..(n * Len(names)) |->
                    ItemRead(samples[((k - 1) \div Len(names)) + 1],
                             names[((k - 1) % Len(names)) + 1])]
    IN  IF n = 0
        THEN IF items.t = "list" THEN LoadOutcome("none", <<>>, <<>>)
             ELSE LoadOutcome("UnboundLocalError", None, <<>>)
        ELSE IF names = <<>> THEN LoadOutcome("none", <<>>, <<>>)
        ELSE IF \/ \E i \in DOMAIN samples : samples[i] \notin SeqRange(file.samples)
                \/ component \notin SeqRange(file.comps)
        THEN LoadOutcome("KeyError", None, <<>>)
        ELSE IF \E i \in DOMAIN names : names[i] \notin file.items
        THEN LoadOutcome("TypeError", None, <<>>)
        ELSE IF items.t = "list"
        THEN LoadOutcome("none",
                [i \in DOMAIN names |->
                    FloatDiv(SumOver(file, samples, names[i], n), n)], reads)
        ELSE LoadOutcome("none", FloatDiv(SumOver(file, samples, names[1], n), n), reads)

\* args['freq_ref'] of comp_from_chain (tools/h5.py) keeping all entries of
\* nu_ref of a polarized component (mutation).
LoaderFreqRefWhole(comp_is_polarized, nu_ref) ==
    IF comp_is_polarized THEN ShapedArray(<<Len(nu_ref)>>, nu_ref)
    ELSE ShapedArray(<<>>, <<nu_ref[1]>>)

\* args['freq_ref'] of comp_from_chain (tools/h5.py): freq_ref[:-1] of a
\* polarized component, else the scalar freq_ref[0].
LoaderFreqRef(comp_is_polarized, nu_ref) ==
    IF comp_is_polarized
    THEN ShapedArray(<<Len(nu_ref) - 1>>, SubSeq(nu_ref, 1, Len(nu_ref) - 1))
    ELSE ShapedArray(<<>>, <<nu_ref[1]>>)

\* comp_from_chain (tools/h5.py) for a component class whose constructor takes
\* amp and freq_ref. The value returned is the component: its name, the
\* resolution and rows of its amp map, how amp was obtained, and freq_ref.
H5CompFromChain(file, component, model_nside, sample, burn_in) ==
    LET averaged == sample = None
        \* sample = _get_samples(file); sample = sample[burn_in:]
        selected == IF burn_in = None THEN GetSamples(file)
                    ELSE SubSeq(GetSamples(file), burn_in.v + 1, Len(GetSamples(file)))
        sample1 == IF averaged THEN ListVal(selected)
                   ELSE IF sample.t = "int" THEN StrVal(IntToSample(sample.v))
                   ELSE sample
        get_items(items) ==
            IF averaged THEN GetAveragedItems(file, sample1.v, component, ListVal(items))
            ELSE GetItems(file, sample1, component, items)
        alm_names == IF ItemAlmExists(file, component, "amp") THEN <<"amp">> ELSE <<>>
        map_names == IF alm_names = <<>> /\ ItemMapExists(file, component, "amp")
                     THEN <<"amp">> ELSE <<>>
        maps_ == get_items([i \in DOMAIN map_names |-> map_names[i] \o "_map"])
        alms_ == get_items([i \in DOMAIN alm_names |-> alm_names[i] \o "_alm"])
        alms_lmax_ == get_items([i \in DOMAIN alm_names |-> alm_names[i] \o "_lmax"])
        nside == IF model_nside = None THEN NativeNside ELSE model_nside.v
        reads == maps_.reads \o alms_.reads \o alms_lmax_.reads
    IN  \* _get_component_params: f[param_group][component]
        IF component \notin SeqRange(file.comps) THEN LoadOutcome("KeyError", None, <<>>)
        ELSE IF alm_names = <<>> /\ map_names = <<>>
        THEN LoadOutcome("KeyError", None, <<>>)
        ELSE IF maps_.err # "none" THEN LoadOutcome(maps_.err, None, <<>>)
        ELSE IF alms_.err # "none" THEN LoadOutcome(alms_.err, None, maps_.reads)
        ELSE IF alms_lmax_.err # "none"
        THEN LoadOutcome(alms_lmax_.err, None, maps_.reads \o alms_.reads)
        \* args['amp'] when neither maps nor alms hold a value
        ELSE IF maps_.ret = <<>> /\ alms_.ret = <<>>
        THEN LoadOutcome("KeyError", None, reads)
        ELSE LoadOutcome("none",
                [name |-> component, nside |-> nside, pol |-> file.pol,
                 amp |-> IF alms_.ret # <<>>
                         \* hp.alm2map(unpacked_alm, nside, lmax, fwhm, pol): the
                         \* flag compares the literal 'key' with 'amp'
                         THEN [from |-> "alm", v |-> alms_.ret[1],
                               lmax |-> alms_lmax_.ret[1], pol |-> ("key" = "amp")]
                         ELSE [from |-> "map", v |-> maps_.ret[1]],
                 \* component_class(name=component, **args) stores the
                 \* reshaped args['freq_ref']
                 freq_ref |-> ReshapeFreqRef(LoaderFreqRef(file.pol, file.nu_ref)).ret],
                reads)

\* The component loop of model_from_chain (tools/h5.py) over
\* component_list[1..n]: the class is looked up in comps, the component is
\* read and inserted into the model.
RECURSIVE H5InsertAll(_, _, _, _, _, _, _)
H5InsertAll(file, nside, sample, burn_in, classes, component_list, n) ==
    IF n = 0 THEN [err |-> "none", attrs |-> NewModel(nside), reads |-> <<>>]
    ELSE LET prev == H5InsertAll(file, nside, sample, burn_in, classes,
                                 component_list, n - 1)
             comp == component_list[n]
             c == H5CompFromChain(file, comp, nside, sample, burn_in)
             ins == AddComponent(prev.attrs, c.ret)
         IN  IF prev.err # "none" THEN prev
             ELSE IF comp \notin classes
             THEN [err |-> "KeyError", attrs |-> prev.attrs, reads |-> prev.reads]
             ELSE IF c.err # "none"
             THEN [err |-> c.err, attrs |-> prev.attrs, reads |-> prev.reads \o c.reads]
             ELSE [err |-> ins.err, attrs |-> ins.attrs, reads |-> prev.reads \o c.reads]

\* model_from_chain (tools/h5.py) looping over the classes given instead of
\* the components of the file (mutation).
H5ModelFromChainRequested(file, nside, sample, burn_in, comps) ==
    LET classes == IF comps = None THEN SeqRange(GetComponents(file, TRUE))
                   ELSE comps.keys
        component_list == SelectSeq(<<"cmb", "dust">>, LAMBDA c : c \in classes)
        o == H5InsertAll(file, nside, sample, burn_in, classes, component_list,
                         Len(component_list))
    IN  LoadOutcome(o.err, IF o.err = "none" THEN o.attrs ELSE None, o.reads)

\* model_from_chain (tools/h5.py); the value returned is the Model instance.
H5ModelFromChain(file, nside, sample, burn_in, comps) ==
    LET classes == IF comps = None \/ comps.keys = {} THEN DefaultComps ELSE comps.keys
        component_list == GetComponents(file, TRUE)
        o == H5InsertAll(file, nside, sample, burn_in, classes, component_list,
                         Len(component_list))
    IN  LoadOutcome(o.err, IF o.err = "none" THEN o.attrs ELSE None, o.reads)

\* The chain files drawn: the component groups of the parameter group, the
\* samples with the value every item holds in each, the items every component
\* group holds, and parameters['polarization'].
H5ComponentLists == {<<"cmb">>, <<"cmb", "dust">>, <<"cmb", "radio">>}
H5ItemSets == {{}, {"amp"}, {"amp_map"}, {"amp_alm", "amp_lmax"}}
H5SampleLists ==
    {SubSeq(SampleNames, 1, n) : n \in 1..MaxSamples}
        \cup {SubSeq(SampleNames, 2, MaxSamples)}
H5Files ==
    UNION {[comps : H5ComponentLists, samples : {s}, vals : [DOMAIN s -> FloatValues],
            items : H5ItemSets, pol : BOOLEAN, nu_ref : NuRefs] : s \in H5SampleLists}

\* The sample / burn_in arguments drawn.
BurnInArgs == {None} \cup {IntVal(b) : b \in 0..MaxSamples}
H5SampleArgs ==
    {IntVal(0), IntVal(1), StrVal("000001"), StrVal("000002"),
     ListVal(<<IntVal(0), IntVal(1)>>),
     ListVal(<<StrVal("000000"), StrVal("000001")>>), ListVal(<<StrVal("000001")>>)}
H5Selections ==
    [sample : {None}, burn_in : BurnInArgs]
        \cup [sample : H5SampleArgs, burn_in : {None, IntVal(1)}]
H5NsideArgs == {None, IntVal(1)}
H5CompsArgs == {None, ClassDict({"cmb"}), ClassDict({"cmb", "dust"}), ClassDict({"dust"})}
\* The samples / items arguments of _get_averaged_items drawn for a file.
H5SampleRanges(file) ==
    {SubSeq(file.samples, i, j) : i, j \in DOMAIN file.samples}
        \cup {<<file.samples[1], file.samples[1]>>, <<"000004">>}
H5ItemsArgs ==
    {ListVal(<<>>), ListVal(<<"amp_map">>), ListVal(<<"amp_alm", "amp_lmax">>),
     StrVal("amp_map"), StrVal("amp_alm")}

\* ---------------------------------------------------------------- actions
SeqsUpTo(S, n) == UNION {[1..k -> S] : k \in 0..n}

NsideArgs == {None} \cup {IntVal(n) : n \in 0..MaxNside}

\* The record of a call: operation, argument, exception ("none" when it
\* returned), returned value, and pre: for insert the attributes before the
\* call, for remove the record of the call before it when that was the successful
\* insert of the component now removed.
Call(op, arg, err, ret, pre) ==
    [op |-> op, arg |-> arg, err |-> err, ret |-> ret, pre |-> pre]

NoChainCall == [op |-> "none"]

\* Model(components, nside): the states are those of the constructions that
\* return.
InitModel ==
    \E components \in SeqsUpTo(Component, MaxInitComps), nside \in NsideArgs :
        /\ ModelInit(components, nside).err = "none"
        /\ attrs = ModelInit(components, nside).attrs
        /\ last = Call("init", [components |-> components, nside |-> nside],
                       "none", None, None)

Init == InitModel /\ chain = NoChainCall

\* model.insert(component)
Insert(component) ==
    LET o == AddComponent(attrs, component)
    IN  /\ attrs' = o.attrs
        /\ last' = Call("insert", component, o.err, None, attrs)
        /\ UNCHANGED chain

\* model.remove(name)
Remove(name) ==
    LET o == DelItem(attrs, name)
    IN  /\ attrs' = o.attrs
        /\ last' = Call("remove", name, o.err, None,
                         IF last.op = "insert" /\ last.err = "none" /\ last.arg.name = name
                         THEN last ELSE None)
        /\ UNCHANGED chain

\* model.to_nside(new_nside)
Resample(new_nside) ==
    LET o == ToNside(attrs, new_nside)
    IN  /\ attrs' = o.attrs
        /\ last' = Call("to_nside", new_nside, o.err, o.calls, None)
        /\ UNCHANGED chain

\* model.get_emission(freq, bandpass)
Emission(freq, bandpass) ==
    LET o == GetEmission(attrs, freq, bandpass)
    IN  /\ last' = Call("get_emission", [freq |-> freq, bandpass |-> bandpass],
                        o.err, [val |-> o.ret, log |-> o.log], None)
        /\ UNCHANGED <<attrs, chain>>

FreqValues == {1, 2}
FreqArgs ==
    {ScalarFreq(f) : f \in FreqValues}
        \cup {ListFreq(fs) : fs \in UNION {[1..k -> FreqValues] : k \in 1..MaxFreqs}}

\* A bandpass profile has one weight per frequency.
BandpassArgs(freq) == {None, ArrayVal([i \in DOMAIN freq.v |-> i])}

Next ==
    \/ \E component \in Component : Insert(component)
    \/ \E name \in AttrNames : Remove(name)
    \/ \E new_nside \in 0..MaxNside : Resample(new_nside)
    \/ \E freq \in FreqArgs : \E bandpass \in BandpassArgs(freq) : Emission(freq, bandpass)

Spec == Init /\ [][Next]_vars

\* Components of every name an attribute of the Model can have, the names of
\* the Model's own attributes among them.
AnyNameComponents == {c \in ComponentsNamed(AttrNames) : ~c.pol /\ c.amp = 1}

\* Inserts and removals with components of any name.
NextAttr ==
    \/ \E component \in AnyNameComponents : Insert(component)
    \/ \E name \in AttrNames : Remove(name)

SpecAttr == Init /\ [][NextAttr]_vars

\* model_from_chain(chain, nside, components, samples)
LoadChain(ch, nside, components, samples) ==
    LET o == ModelFromChain(ch, nside, components, samples)
    IN  /\ chain = NoChainCall
        /\ chain' = [op |-> "model_from_chain",
                     arg |-> [chain |-> ch, nside |-> nside,
                              components |-> components, samples |-> samples],
                     err |-> o.err, ret |-> o.ret, reads |-> o.reads]
        /\ UNCHANGED <<attrs, last>>

InitChain ==
    /\ attrs = NewModel(None)
    /\ last = Call("init", [components |-> <<>>, nside |-> None], "none", None, None)
    /\ chain = NoChainCall

\* comp_from_chain(chain, nside, component_label, component_class, samples)
LoadComponent(ch, nside, label, samples) ==
    LET o == CompFromChain(ch, nside, label, samples)
    IN  /\ chain' = [op |-> "comp_from_chain",
                     arg |-> [chain |-> ch, nside |-> nside, label |-> label,
                              samples |-> samples],
                     err |-> o.err, ret |-> o.ret, reads |-> o.reads]
        /\ UNCHANGED <<attrs, last>>

\* One call is made per behaviour.
NextChain ==
    \/ /\ chain = NoChainCall
       /\ \E ch \in Chains, nside \in 1..MaxNside, components \in ComponentArgs,
             samples \in SampleArgs :
              LoadChain(ch, nside, components, samples)
    \/ /\ chain = NoChainCall
       /\ \E ch \in Chains, nside \in 1..MaxNside, samples \in {None, IntVal(-1)} :
              LoadComponent(ch, nside, ch.components[1], samples)

SpecChain == InitChain /\ [][NextChain]_vars

\* The record of a call of a function of tools/h5.py.
H5Call(op, arg, o) ==
    [op |-> op, arg |-> arg, err |-> o.err, ret |-> o.ret, reads |-> o.reads]

\* _get_averaged_items(file, samples, component, items)
CallGetAveragedItems(file, samples, items) ==
    /\ chain' = H5Call("h5._get_averaged_items",
                       [file |-> file, samples |-> samples, items |-> items],
                       GetAveragedItems(file, samples, "cmb", items))
    /\ UNCHANGED <<attrs, last>>

\* comp_from_chain(file, component, component_class, model_nside, sample, burn_in)
CallCompFromChain(file, component, model_nside, sample, burn_in) ==
    /\ chain' = H5Call("h5.comp_from_chain",
                       [file |-> file, component |-> component, nside |-> model_nside,
                        sample |-> sample, burn_in |-> burn_in],
                       H5CompFromChain(file, component, model_nside, sample, burn_in))
    /\ UNCHANGED <<attrs, last>>

\* model_from_chain(file, nside, sample, burn_in, comps)
CallModelFromChain(file, nside, sample, burn_in, comps) ==
    /\ chain' = H5Call("h5.model_from_chain",
                       [file |-> file, nside |-> nside, sample |-> sample,
                        burn_in |-> burn_in, comps |-> comps],
                       H5ModelFromChain(file, nside, sample, burn_in, comps))
    /\ UNCHANGED <<attrs, last>>

\* One call is made per behaviour.
NextH5 ==
    \/ /\ chain = NoChainCall
       /\ \E file \in H5Files : \E samples \in H5SampleRanges(file), items \in H5ItemsArgs :
             CallGetAveragedItems(file, samples, items)
    \/ /\ chain = NoChainCall
       /\ \E file \in H5Files, component \in {"cmb", "dust"}, model_nside \in H5NsideArgs,
             sel \in H5Selections :
             CallCompFromChain(file, component, model_nside, sel.sample, sel.burn_in)
    \/ /\ chain = NoChainCall
       /\ \E file \in H5Files, nside \in H5NsideArgs, sel \in H5Selections,
             comps \in H5CompsArgs :
             CallModelFromChain(file, nside, sel.sample, sel.burn_in, comps)

SpecH5 == InitChain /\ [][NextH5]_vars

\* Both loaders: sky/chain/model.py and tools/h5.py.
NextLoaders == NextChain \/ NextH5

SpecLoaders == InitChain /\ [][NextLoaders]_vars

\* ------------------------------------------------- unpack_alms_from_chain (tools/h5.py)
\* Largest lmax and number of rows of the packed coefficients.
MaxLmax == 4
MaxRows == 2

\* The allocated row length with the m = 0 coefficient of l = 0 left out
\* (mutation).
NAlmsShort(lmax) == (lmax * (2 * lmax + 1 - lmax)) \div 2 + lmax

\* n_alms = int(lmax * (2*lmax+1 - lmax) / 2 + lmax+1)
NAlms(lmax) == (lmax * (2 * lmax + 1 - lmax)) \div 2 + lmax + 1

\* The call in progress is kept in `chain`: the loop variables sigma, l, m
\* and i, the position pc in the code, alms (an unwritten slot holds None, a
\* written one the input indices of its real and imaginary part and whether
\* it is divided by sqrt(2)), and per row how often every output slot was
\* written, every input index read, and the value of i when the row ended.
\* unpack_alms_from_chain(data, lmax) up to the first loop; every row of data
\* holds (lmax+1)^2 values.
UnpackCall(n, lmax) ==
    /\ chain' = [op |-> "unpack_alms_from_chain", arg |-> [n |-> n, lmax |-> lmax],
                 pc |-> IF n = 0 THEN "return" ELSE "m0",
                 sigma |-> 0, i |-> 0, l |-> 0, m |-> 1,
                 alms |-> [s \in 0..(n - 1) |-> [k \in 0..(NAlms(lmax) - 1) |-> None]],
                 written |-> [s \in 0..(n - 1) |-> [k \in 0..(NAlms(lmax) - 1) |-> 0]],
                 read |-> [s \in 0..(n - 1) |-> [j \in 0..((lmax + 1)^2 - 1) |-> 0]],
                 ends |-> <<>>, ret |-> None]
    /\ UNCHANGED <<attrs, last>>

\* alms[sigma, i] = complex(data[sigma, j_real], data[sigma, j_comp]) / sqrt(2)
\* (j_comp = -1: the imaginary part 0.0 and no division); i += 1; then the
\* loops move on to the position pc with the loop variables l and m. The
\* function is compiled with numba, which checks no index: an index outside
\* the array is undefined behaviour.
UnpackStore(u, j_real, j_comp, pc, l, m) ==
    LET js == IF j_comp = -1 THEN {j_real} ELSE {j_real, j_comp}
        \* the first loop is entered anew, or the rows are done
        row_ends == pc = "return" \/ (pc = "m0" /\ l = 0)
    IN  IF u.i \notin DOMAIN u.alms[u.sigma]
           \/ \E j \in js : j \notin DOMAIN u.read[u.sigma]
        THEN [u EXCEPT !.pc = "undefined"]
        ELSE [u EXCEPT !.alms[u.sigma][u.i] =
                           [re |-> j_real, im |-> j_comp, scaled |-> j_comp # -1],
                       !.written[u.sigma][u.i] = @ + 1,
                       !.read[u.sigma] =
                           [j \in DOMAIN @ |->
                               @[j] + (IF j = j_real THEN 1 ELSE 0)
                                    + (IF j = j_comp THEN 1 ELSE 0)],
                       !.ends = IF row_ends THEN Append(@, u.i + 1) ELSE @,
                       !.i = IF row_ends THEN 0 ELSE u.i + 1,
                       !.sigma = IF row_ends THEN u.sigma + 1 ELSE u.sigma,
                       !.pc = pc, !.l = l, !.m = m]

\* The position after the last iteration of the loops of one row: the next
\* row, or the return statement.
UnpackRowEnd(u) == IF u.sigma + 1 < u.arg.n THEN "m0" ELSE "return"

\* One iteration of `for l in range(lmax+1)`.
UnpackM0 ==
    /\ chain.op = "unpack_alms_from_chain"
    /\ chain.pc = "m0"
    /\ chain' = IF chain.l < chain.arg.lmax
                THEN UnpackStore(chain, chain.l^2 + chain.l, -1, "m0", chain.l + 1, 1)
                ELSE IF chain.arg.lmax >= 1
                THEN UnpackStore(chain, chain.l^2 + chain.l, -1, "pairs", 1, 1)
                ELSE UnpackStore(chain, chain.l^2 + chain.l, -1, UnpackRowEnd(chain), 0, 1)
    /\ UNCHANGED <<attrs, last>>

\* One iteration of `for m in range(1, lmax+1): for l in range(m, lmax+1)`.
UnpackPair ==
    /\ chain.op = "unpack_alms_from_chain"
    /\ chain.pc = "pairs"
    /\ LET j_real == chain.l^2 + chain.l + chain.m
           j_comp == chain.l^2 + chain.l - chain.m
       IN  chain' = IF chain.l < chain.arg.lmax
                    THEN UnpackStore(chain, j_real, j_comp, "pairs", chain.l + 1, chain.m)
                    ELSE IF chain.m < chain.arg.lmax
                    THEN UnpackStore(chain, j_real, j_comp, "pairs", chain.m + 1,
                                     chain.m + 1)
                    ELSE UnpackStore(chain, j_real, j_comp, UnpackRowEnd(chain), 0, 1)
    /\ UNCHANGED <<attrs, last>>

\* return alms
UnpackReturn ==
    /\ chain.op = "unpack_alms_from_chain"
    /\ chain.pc = "return"
    /\ chain' = [chain EXCEPT !.pc = "done", !.ret = chain.alms]
    /\ UNCHANGED <<attrs, last>>

NextUnpack ==
    \/ /\ chain = NoChainCall
       /\ \E n \in 0..MaxRows, lmax \in 0..MaxLmax : UnpackCall(n, lmax)
    \/ UnpackM0
    \/ UnpackPair
    \/ UnpackReturn

SpecUnpack == InitChain /\ [][NextUnpack]_vars

\* ------------------------------------------------- component calls (sky/base.py)
\* Largest number of spatially varying spectral parameters, and of sources of
\* a point-source component.
MaxGrid == 3
MaxSources == 3

\* Beam widths, in the unit of PixRes; 0 is no beam.
FwhmValues == {0, 1, 2}
\* The pixels the sources of a catalog fall in.
SourcePixels == {1, 3}

DiffuseComponents ==
    [kind : {"diffuse"}, name : {"dust"}, nside : {1}, pol : BOOLEAN,
     amp : AmpValues, d : 0..MaxGrid]
PointComponents ==
    UNION {[kind : {"point"}, name : {"radio"}, nside : {1, 2}, pol : {FALSE},
            amp : [1..n -> AmpValues], coords : [1..n -> SourcePixels],
            d : {0, MaxGrid}] : n \in 1..MaxSources}
\* The components that are evaluated: the point components among them hold
\* fewer than MaxSources sources.
SkyComponents ==
    DiffuseComponents \cup {c \in PointComponents : Len(c.coords) < MaxSources}

\* The explicit sigma argument of _points_to_map.
SigmaArgs == {None, IntVal(0), IntVal(1)}

\* A catalog file: None when the path does not exist, else its rows of
\* (longitude, latitude).
Catalogs ==
    {None} \cup {[rows |-> r] : r \in UNION {[1..n -> {<<10, 20>>}] : n \in 0..(MaxSources + 1)}}

\* The component with the emission scaled into self.amp (mutation).
AfterCallInPlace(component, freqs, bandpass, fwhm) ==
    IF Kind(component) = "diffuse" THEN [component EXCEPT !.amp = @ * FreqScaling(freqs)]
    ELSE [component EXCEPT !.amp = [i \in DOMAIN @ |-> @[i] * FreqScaling(freqs)]]

\* The component as a call leaves it: the emission is a new array
\* (self.amp * scaling, or the map of _points_to_map), smoothing writes into
\* that array, and no attribute of the component is assigned.
AfterCall(component, freqs, bandpass, fwhm) == component

\* comp(freqs, bandpass, fwhm); `pre` holds the component after the call.
CallComponent(component, freqs, bandpass, fwhm) ==
    LET o == ComponentCall(component, freqs, bandpass, fwhm)
    IN  /\ last' = Call("comp.__call__",
                        [component |-> component, freqs |-> freqs,
                         bandpass |-> bandpass, fwhm |-> fwhm],
                        o.err, o, AfterCall(component, freqs, bandpass, fwhm))
        /\ UNCHANGED <<attrs, chain>>

\* comp._points_to_map(amp, nside, fwhm, sigma)
CallPointsToMap(component, fwhm, sigma) ==
    LET o == PointsToMap(component, component.amp, fwhm, sigma)
    IN  /\ last' = Call("comp._points_to_map",
                        [component |-> component, fwhm |-> fwhm, sigma |-> sigma],
                        o.err, o, None)
        /\ UNCHANGED <<attrs, chain>>

\* comp._get_bandpass_scaling(freqs, bandpass)
CallGetBandpassScaling(component, freqs, bandpass) ==
    LET o == GetBandpassScaling(component, freqs, bandpass.v)
    IN  /\ last' = Call("comp._get_bandpass_scaling",
                        [component |-> component, freqs |-> freqs,
                         bandpass |-> bandpass],
                        o.err, o, None)
        /\ UNCHANGED <<attrs, chain>>

\* comp._read_coords(catalog)
CallReadCoords(component, catalog) ==
    LET o == ReadCoords(component, catalog)
    IN  /\ last' = Call("comp._read_coords",
                        [component |-> component, catalog |-> catalog],
                        o.err, o.ret, None)
        /\ UNCHANGED <<attrs, chain>>

\* The freq_ref argument of a component class: None, or an array of one of
\* the shapes (), (1,), (1,1), (2,), (3,), (3,1), (1,3), (4,), (0,).
FreqRefArgs ==
    {None} \cup
    UNION {{ShapedArray(s.shape, v) : v \in [1..s.size -> AmpValues]} :
              s \in {[shape |-> <<>>, size |-> 1], [shape |-> <<1>>, size |-> 1],
                     [shape |-> <<1, 1>>, size |-> 1], [shape |-> <<2>>, size |-> 2],
                     [shape |-> <<3>>, size |-> 3], [shape |-> <<3, 1>>, size |-> 3],
                     [shape |-> <<1, 3>>, size |-> 3], [shape |-> <<4>>, size |-> 4],
                     [shape |-> <<0>>, size |-> 0]}}

\* _Component.__init__(amp, freq_ref): the attributes of the new component.
ComponentInit(amp, freq_ref) ==
    LET o == ReshapeFreqRef(freq_ref)
    IN  /\ last' = Call("comp.__init__", [amp |-> amp, freq_ref |-> freq_ref], o.err,
                        IF o.err = "none"
                        THEN [amp |-> amp, freq_ref |-> o.ret, spectral_parameters |-> <<>>]
                        ELSE None,
                        None)
        /\ UNCHANGED <<attrs, chain>>

\* One call is made per behaviour.
NextComp ==
    \/ /\ last.op = "init"
       /\ \E component \in SkyComponents, freqs \in FreqArgs, fwhm \in FwhmValues :
             \E bandpass \in BandpassArgs(freqs) :
                CallComponent(component, freqs, bandpass, fwhm)
    \/ /\ last.op = "init"
       /\ \E component \in PointComponents, fwhm \in FwhmValues, sigma \in SigmaArgs :
             CallPointsToMap(component, fwhm, sigma)
    \/ /\ last.op = "init"
       /\ \E component \in SkyComponents, freqs \in FreqArgs :
             \E bandpass \in BandpassArgs(freqs) \ {None} :
                CallGetBandpassScaling(component, freqs, bandpass)
    \/ /\ last.op = "init"
       /\ \E component \in PointComponents, catalog \in Catalogs :
             CallReadCoords(component, catalog)
    \/ /\ last.op = "init"
       /\ \E amp \in AmpValues, freq_ref \in FreqRefArgs : ComponentInit(amp, freq_ref)

SpecComp == InitChain /\ [][NextComp]_vars

\* The evaluation recorded in `last` made once more, on the model and the
\* component as the first evaluation left them; `pre` holds the record of the
\* first evaluation.
Again ==
    /\ last.op \in {"get_emission", "comp.__call__"}
    /\ last' = IF last.op = "get_emission"
               THEN LET o == GetEmission(attrs, last.arg.freq, last.arg.bandpass)
                    IN  Call("again", last.arg, o.err, [val |-> o.ret, log |-> o.log], last)
               ELSE LET o == ComponentCall(last.pre, last.arg.freqs, last.arg.bandpass,
                                           last.arg.fwhm)
                    IN  Call("again", last.arg, o.err, o, last)
    /\ UNCHANGED <<attrs, chain>>

\* Emission evaluations on a constructed model: get_emission, a call of a
\* component of the model or of a point-source component outside a model, and
\* the same evaluation a second time.
EvalPointComponents == {c \in PointComponents : c.nside = 1 /\ c.d = 0 /\ Len(c.amp) = 2}
NextEval ==
    \/ /\ last.op = "init"
       /\ \E freq \in FreqArgs : \E bandpass \in BandpassArgs(freq) :
             Emission(freq, bandpass)
    \/ /\ last.op = "init"
       /\ SelfComponents(attrs).t = "dict"
       /\ \E i \in DOMAIN SelfComponents(attrs).d, freqs \in FreqArgs, fwhm \in FwhmValues :
             \E bandpass \in BandpassArgs(freqs) :
                CallComponent(SelfComponents(attrs).d[i].val, freqs, bandpass, fwhm)
    \/ /\ last.op = "init"
       /\ \E component \in EvalPointComponents, freqs \in FreqArgs, fwhm \in FwhmValues :
             \E bandpass \in BandpassArgs(freqs) :
                CallComponent(component, freqs, bandpass, fwhm)
    \/ Again

SpecEval == Init /\ [][NextEval]_vars

\* ------------------------------------------------- container: claims C1-C6
Mapping(a) == SelfComponents(a).d

\* C1: in every reachable state, calls that raised included, each component
\* held by the model has an amp resolution equal to the model's nside (which
\* is then an integer).
C1_ComponentsShareNside ==
    \A i \in DOMAIN Mapping(attrs) :
        /\ SelfNside(attrs).t = "int"
        /\ GetNside(Mapping(attrs)[i].val) = SelfNside(attrs).v

\* C1 witness: two components were resampled by a to_nside call that returned.
C1_Witness ==
    /\ last.op = "to_nside" /\ last.err = "none"
    /\ Len(last.ret) = 2 /\ Len(Mapping(attrs)) = 2

\* The resolution of the component of an insert call differs from the model's
\* already fixed resolution.
MismatchedInsert ==
    /\ last'.op = "insert"
    /\ SelfNside(attrs).t = "int"
    /\ GetNside(last'.arg) # SelfNside(attrs).v

\* C2 as stated: every insert of a component whose resolution differs from the
\* fixed model resolution raises the resolution-mismatch error (NsideError) and
\* leaves the attributes, the mapping and nside as they were.
C2_MismatchAlwaysNsideError ==
    [][MismatchedInsert => (last'.err = "NsideError" /\ attrs' = attrs)]_vars

\* C2 amended: such an insert leaves the model unmodified; it raises NsideError
\* when the component's name is not yet a key of the mapping, and the
\* duplicate-component KeyError when it is.
C2_MismatchRaisesUnmodified ==
    [][MismatchedInsert =>
          /\ attrs' = attrs
          /\ last'.err = IF DictHas(Mapping(attrs), last'.arg.name)
                         THEN "KeyError" ELSE "NsideError"]_vars

\* C2 witness: an insert into a model holding a component raised NsideError.
C2_Witness ==
    /\ last.op = "insert" /\ last.err = "NsideError"
    /\ Len(Mapping(attrs)) >= 1
    /\ ~DictHas(Mapping(attrs), last.arg.name)

\* C3: an insert of a component whose name is a key of the mapping raises the
\* duplicate-component KeyError and changes nothing (mapping, the component
\* stored under the name, nside); and the keys of the mapping are always
\* pairwise distinct, each entry stored under its component's name.
C3_DuplicateRaisesUnchanged ==
    /\ [][(last'.op = "insert" /\ DictHas(Mapping(attrs), last'.arg.name)) =>
            (last'.err = "KeyError" /\ attrs' = attrs)]_vars
    /\ [](\A i, j \in DOMAIN Mapping(attrs) :
            /\ Mapping(attrs)[i].key = Mapping(attrs)[i].val.name
            /\ (Mapping(attrs)[i].key = Mapping(attrs)[j].key => i = j))

\* C3 witness: a duplicate insert of a component that differs from the stored
\* one was refused.
C3_Witness ==
    /\ last.op = "insert" /\ last.err = "KeyError"
    /\ DictHas(Mapping(attrs), last.arg.name)
    /\ DictGet(Mapping(attrs), last.arg.name) # last.arg
    /\ GetNside(last.arg) = SelfNside(attrs).v

\* remove(name) directly follows the successful insert of the component of
\* that name.
RemoveAfterInsert ==
    /\ last.op = "insert" /\ last.err = "none"
    /\ last'.op = "remove" /\ last'.arg = last.arg.name

\* C4 as stated: insert followed by remove of the same name leaves the mapping
\* and the resolution as before the insert (unset again when it was unset).
C4_InsertRemoveRestoresAll ==
    [][RemoveAfterInsert =>
          /\ last'.err = "none"
          /\ SelfComponents(attrs') = SelfComponents(last.pre)
          /\ SelfNside(attrs') = SelfNside(last.pre)]_vars

\* C4 amended: insert followed by remove of the same name leaves the mapping
\* and the per-name attributes as before the insert; the resolution is as
\* before when it was set, and stays at the inserted component's resolution
\* when it was unset before the insert.
C4_InsertRemoveKeepsNside ==
    [][RemoveAfterInsert =>
          /\ last'.err = "none"
          /\ SelfComponents(attrs') = SelfComponents(last.pre)
          /\ \A k \in Names : attrs'[k] = last.pre[k]
          /\ SelfNside(attrs') = IF SelfNside(last.pre) = None
                                 THEN IntVal(GetNside(last.arg))
                                 ELSE SelfNside(last.pre)]_vars

\* C4 witness: the first insert into a model with unset resolution was undone
\* by remove.
C4_Witness ==
    /\ last.op = "remove" /\ last.err = "none"
    /\ last.pre # None
    /\ SelfNside(last.pre.pre) = None
    /\ Mapping(attrs) = <<>>

\* C5: remove of a name that is no key of the mapping raises the not-found
\* KeyError and changes nothing; remove of a key returns, drops that entry and
\* the attribute of that name, and keeps every other entry, every other
\* attribute and nside.
C5_RemoveExactlyOne ==
    [][last'.op = "remove" =>
          IF ~DictHas(Mapping(attrs), last'.arg)
          THEN last'.err = "KeyError" /\ attrs' = attrs
          ELSE /\ last'.err = "none"
               /\ DictKeys(Mapping(attrs')) = DictKeys(Mapping(attrs)) \ {last'.arg}
               /\ Len(Mapping(attrs')) = Len(Mapping(attrs)) - 1
               /\ \A k \in DictKeys(Mapping(attrs')) :
                      DictGet(Mapping(attrs'), k) = DictGet(Mapping(attrs), k)
               /\ attrs'[last'.arg] = Absent
               /\ \A k \in AttrNames \ {last'.arg, "components"} :
                      attrs'[k] = attrs[k]]_vars

\* C5 witness: a component was removed and another one stayed.
C5_Witness ==
    /\ last.op = "remove" /\ last.err = "none"
    /\ Len(Mapping(attrs)) >= 1

\* C6: an insert that returns sets nside to the component's resolution when
\* nside was unset, and leaves nside as it was when it was set.
C6_FirstInsertFixesNside ==
    [][(last'.op = "insert" /\ last'.err = "none") =>
          SelfNside(attrs') = IF SelfNside(attrs) = None
                              THEN IntVal(GetNside(last'.arg))
                              ELSE SelfNside(attrs)]_vars

\* C6 witness: an insert into a model with unset nside returned.
C6_Witness ==
    /\ last.op = "insert" /\ last.err = "none"
    /\ SelfNside(last.pre) = None
    /\ SelfNside(attrs) = IntVal(GetNside(last.arg))


\* ---------------------------------------------------- emission: claims C7-C8
\* Row k of a component emission; a one-row emission has nothing in rows 2, 3.
RowOf(emission, k) == IF k \in DOMAIN emission.cols THEN emission.cols[k] ELSE 0

\* Row k of the sum of the delta emissions of all components at frequency f.
SumOfRows(a, f, k) ==
    SumSeq([i \in DOMAIN Mapping(a) |->
              RowOf(DeltaEmission(Mapping(a)[i].val, ScalarFreq(f)), k)])

\* The single-frequency aggregate: 3 rows if a component is polarized,
\* else 1, each the sum of the components' rows.
AggregateRows(a, f) ==
    [k \in 1..(IF \E i \in DOMAIN Mapping(a) : Mapping(a)[i].val.pol THEN 3 ELSE 1) |->
        SumOfRows(a, f, k)]

PowersOfTwo == {2^k : k \in 0..MaxNside}

\* C9: to_nside(new_nside) changes nothing and asks no component when
\* new_nside is the current nside; raises ValueError and changes nothing when
\* new_nside is no valid resolution; otherwise nside becomes new_nside and
\* each component of the mapping is asked exactly once to re-pixelize.
C9_ToNside ==
    [][last'.op = "to_nside" =>
          IF IntVal(last'.arg) = SelfNside(attrs)
          THEN last'.err = "none" /\ attrs' = attrs /\ last'.ret = <<>>
          ELSE IF last'.arg \notin PowersOfTwo
          THEN last'.err = "ValueError" /\ attrs' = attrs /\ last'.ret = <<>>
          ELSE /\ last'.err = "none"
               /\ SelfNside(attrs') = IntVal(last'.arg)
               /\ Len(last'.ret) = Len(Mapping(attrs))
               /\ \A k \in DictKeys(Mapping(attrs)) :
                     Cardinality({i \in DOMAIN last'.ret : last'.ret[i] = k}) = 1
               /\ DictKeys(Mapping(attrs')) = DictKeys(Mapping(attrs))]_vars

\* C9 witness: a to_nside call changed the resolution of a model holding two
\* components.
C9_Witness ==
    /\ last.op = "to_nside" /\ last.err = "none"
    /\ Len(last.ret) = 2
    /\ SelfNside(attrs) = IntVal(last.arg)

\* ------------------------------------------------------- loader: claim C10
OldChainCall == chain.op = "model_from_chain" /\ chain.arg.chain.version = "OLD"

\* C10 as stated: for any arguments, model_from_chain on an OLD archive raises
\* ChainFormatError, having read no component parameter and no sample item,
\* and returns no model.
C10_OldAlwaysFormatError ==
    OldChainCall =>
        chain.err = "ChainFormatError" /\ chain.reads = <<>> /\ chain.ret = None

\* C10 amended: model_from_chain on an OLD archive reads no component
\* parameter and no sample item and returns no model; it raises
\* ChainFormatError, except that a samples string other than 'all' (in any
\* case) raises ValueError first.
C10_OldFailsBeforeReads ==
    OldChainCall =>
        /\ chain.reads = <<>> /\ chain.ret = None
        /\ chain.err = IF chain.arg.samples.t = "str"
                          /\ chain.arg.samples.v \notin {"all", "ALL"}
                       THEN "ValueError" ELSE "ChainFormatError"

\* C10 witness: an OLD archive whose requested components are all present and
\* readable was refused with ChainFormatError.
C10_Witness ==
    /\ OldChainCall /\ chain.err = "ChainFormatError"
    /\ chain.arg.components = ArrayVal(<<"cmb">>)
    /\ chain.arg.chain.params = {"nu_ref"} /\ "amp_alm" \in chain.arg.chain.items

\* ------------------------------------------------------- loader: claim C11
\* A call of model_from_chain whose requested list names a component that the
\* archive does not hold or that the sky model does not register.
RequestedMissing ==
    /\ chain.op = "model_from_chain"
    /\ chain.arg.components # None
    /\ \E c \in SeqRange(chain.arg.components.v) :
          c \notin SeqRange(chain.arg.chain.components) \/ c \notin Registered

\* Every constructor argument of a component is in the archive: as a
\* parameter field or as a sample item in one of its three forms.
ArchiveReadable(ch) ==
    \A n \in DOMAIN ClassArgs :
        \/ Mappings(ClassArgs[n]) \in ch.params
        \/ \E suffix \in {"_alm", "", "_map"} :
              (Mappings(ClassArgs[n]) \o suffix) \in ch.items

\* C11 as stated: whenever the requested list names a component absent from
\* the archive or not registered in the sky model, model_from_chain raises
\* ChainComponentNotFoundError and returns no model.
C11_MissingAlwaysNotFound ==
    RequestedMissing =>
        chain.err = "ChainComponentNotFoundError" /\ chain.ret = None

\* C11 amended: such a call never returns a model. The samples check
\* (ValueError) and the version check (ChainFormatError) come first; then a
\* name absent from the archive raises ChainComponentNotFoundError before
\* anything is read; a name that is in the archive but not registered raises
\* ChainComponentNotFoundError when the loop reaches it, unless a component
\* requested before it could not be read (ChainKeyError).
C11_MissingNeverLoads ==
    RequestedMissing =>
        LET a == chain.arg
            requested == a.components.v
            first == CHOOSE i \in DOMAIN requested :
                        /\ requested[i] \notin Registered
                        /\ \A j \in 1..(i - 1) : requested[j] \in Registered
        IN  /\ chain.ret = None
            /\ chain.err =
                  IF a.samples.t = "str" /\ a.samples.v \notin {"all", "ALL"}
                  THEN "ValueError"
                  ELSE IF a.chain.version = "OLD" THEN "ChainFormatError"
                  ELSE IF \E c \in SeqRange(requested) :
                             c \notin SeqRange(a.chain.components)
                  THEN "ChainComponentNotFoundError"
                  ELSE IF first > 1 /\ ~ArchiveReadable(a.chain)
                  THEN "ChainKeyError"
                  ELSE "ChainComponentNotFoundError"
            /\ (\E c \in SeqRange(requested) : c \notin SeqRange(a.chain.components))
                  => chain.reads = <<>>

\* C11 witness: a CURRENT archive from which one requested component could be
\* loaded and the other is absent was refused with ChainComponentNotFoundError.
C11_Witness ==
    /\ RequestedMissing /\ chain.err = "ChainComponentNotFoundError"
    /\ chain.arg.components = ArrayVal(<<"dust", "cmb">>)
    /\ chain.arg.chain.components = <<"cmb">>
    /\ ArchiveReadable(chain.arg.chain)
    /\ chain.ret = None

\* ----------------------------------------------- both loaders: claim C12
NewLoaderReturned == chain.op = "model_from_chain" /\ chain.err = "none"
OldLoaderReturned == chain.op = "h5.model_from_chain" /\ chain.err = "none"

\* The model returned by model_from_chain of sky/chain/model.py holds one
\* component per requested name (per archive component when none is
\* requested), each under its name, at the requested nside.
NewLoaderHoldsRequested ==
    NewLoaderReturned =>
        LET requested == IF chain.arg.components = None THEN chain.arg.chain.components
                         ELSE chain.arg.components.v
            held == chain.ret.components
        IN  /\ DictKeys(held) = SeqRange(requested)
            /\ Len(held) = Cardinality(SeqRange(requested))
            /\ \A i \in DOMAIN held : held[i].val.name = held[i].key
            /\ chain.ret.nside = chain.arg.nside

\* The names the model returned by model_from_chain of tools/h5.py holds are
\* exactly those of S, each under its name, at the requested nside when one
\* is given.
OldLoaderHolds(S) ==
    /\ DictKeys(Mapping(chain.ret)) = S
    /\ Len(Mapping(chain.ret)) = Cardinality(S)
    /\ \A i \in DOMAIN Mapping(chain.ret) :
          /\ Mapping(chain.ret)[i].val.name = Mapping(chain.ret)[i].key
          /\ chain.ret[Mapping(chain.ret)[i].key] = CompVal(Mapping(chain.ret)[i].val)
    /\ chain.arg.nside # None => SelfNside(chain.ret) = chain.arg.nside

NonIgnored(file) == SeqRange(file.comps) \ IgnoredComps

Selected(a) ==
    IF a.sample = None
    THEN IF a.burn_in = None THEN a.file.samples
         ELSE SubSeq(a.file.samples, a.burn_in.v + 1, Len(a.file.samples))
    ELSE IF a.sample.t = "int" THEN <<IntToSample(a.sample.v)>>
    ELSE IF a.sample.t = "str" THEN <<a.sample.v>>
    ELSE [i \in DOMAIN a.sample.v |->
            IF a.sample.v[i].t = "int" THEN IntToSample(a.sample.v[i].v)
            ELSE a.sample.v[i].v]

\* A call of comp_from_chain for a component of the file that holds amp, with
\* a non-empty selection of samples that are all in the file.
SelectionCall ==
    /\ chain.op = "h5.comp_from_chain"
    /\ chain.arg.component \in SeqRange(chain.arg.file.comps)
    /\ chain.arg.file.items # {}
    /\ Selected(chain.arg) # <<>>
    /\ SeqRange(Selected(chain.arg)) \subseteq SeqRange(chain.arg.file.samples)

\* C13 as stated: comp_from_chain returns the component built from the
\* selected samples: all samples (from the burn_in position on) averaged for
\* sample=None, the one sample for an int or string, the listed samples
\* averaged for a list; and it reads those samples and no other.
C13_SampleSelection ==
    SelectionCall =>
        LET sel == Selected(chain.arg)
            item == IF "amp_alm" \in chain.arg.file.items THEN "amp_alm" ELSE "amp_map"
        IN  /\ chain.err = "none"
            /\ chain.ret.amp.v =
                  IF chain.arg.sample # None /\ chain.arg.sample.t # "list"
                  THEN H5Value(chain.arg.file, sel[1], item)
                  ELSE FloatDiv(SumOver(chain.arg.file, sel, item, Len(sel)), Len(sel))
            /\ {chain.reads[i].sample : i \in DOMAIN chain.reads} = SeqRange(sel)

\* C13 failing case: a list of samples that are all in the file raised
\* TypeError and no component was returned.
C13_Witness ==
    /\ SelectionCall
    /\ chain.arg.sample = ListVal(<<StrVal("000000"), StrVal("000001")>>)
    /\ chain.arg.file.items = {"amp_map"}
    /\ chain.err = "TypeError" /\ chain.ret = None

\* A call of _get_averaged_items with a non-empty list of samples of the file
\* and items the file holds.
AveragingCall ==
    /\ chain.op = "h5._get_averaged_items"
    /\ chain.arg.samples # <<>>
    /\ SeqRange(chain.arg.samples) \subseteq SeqRange(chain.arg.file.samples)
    /\ chain.arg.items # ListVal(<<>>)
    /\ \A i \in DOMAIN ItemNames(chain.arg.items) :
          ItemNames(chain.arg.items)[i] \in chain.arg.file.items

\* The exact sum of an item over the samples listed.
ExactSum(file, samples, item) ==
    SumSeq([i \in DOMAIN samples |-> H5Value(file, samples[i], item)])

Abs(x) == IF x < 0 THEN -x ELSE x

\* Every listed sample is read once per item: as many reads of (sample, item)
\* as the sample has occurrences in the list.
ReadOncePerSample ==
    /\ Len(chain.reads) = Len(chain.arg.samples) * Len(ItemNames(chain.arg.items))
    /\ \A s \in SeqRange(chain.arg.samples), item \in SeqRange(ItemNames(chain.arg.items)) :
          Cardinality({k \in DOMAIN chain.reads : chain.reads[k] = ItemRead(s, item)})
            = Cardinality({i \in DOMAIN chain.arg.samples : chain.arg.samples[i] = s})

\* The value returned for the i-th item.
Averaged(i) == IF chain.arg.items.t = "list" THEN chain.ret[i] ELSE chain.ret

\* The value returned for every item is the mean of its per-sample values up
\* to the rounding of the n - 1 additions and the division.
MeanUpToRounding ==
    \A i \in DOMAIN ItemNames(chain.arg.items) :
        LET n == Len(chain.arg.samples)
            sum == ExactSum(chain.arg.file, chain.arg.samples, ItemNames(chain.arg.items)[i])
        IN  Abs(Averaged(i) * n - sum) * 2^MantissaBits <= sum * (n + 1)

\* All listed samples hold the same value of every item.
ConstantItems ==
    \A i, j \in DOMAIN chain.arg.samples, item \in SeqRange(ItemNames(chain.arg.items)) :
        H5Value(chain.arg.file, chain.arg.samples[i], item)
            = H5Value(chain.arg.file, chain.arg.samples[j], item)

\* C14 as stated: _get_averaged_items returns for every item the sum of its
\* per-sample values divided by the number of samples, each sample counted
\* once; when the item has the same value in every sample, the result is
\* that value.
C14_ConstantAverageExact ==
    AveragingCall =>
        /\ chain.err = "none"
        /\ ReadOncePerSample
        /\ MeanUpToRounding
        /\ ConstantItems =>
              \A i \in DOMAIN ItemNames(chain.arg.items) :
                  Averaged(i) = H5Value(chain.arg.file, chain.arg.samples[1],
                                        ItemNames(chain.arg.items)[i])

\* C14 amended: _get_averaged_items returns for every item the floating-point
\* sum of its per-sample values divided by the number of samples, each sample
\* counted once: the mean up to rounding. When the item has the same value in
\* every sample the result is that value up to rounding, and exactly that
\* value for one or two samples.
C14_AverageUpToRounding ==
    AveragingCall =>
        /\ chain.err = "none"
        /\ ReadOncePerSample
        /\ MeanUpToRounding
        /\ (ConstantItems /\ Len(chain.arg.samples) <= 2) =>
              \A i \in DOMAIN ItemNames(chain.arg.items) :
                  Averaged(i) = H5Value(chain.arg.file, chain.arg.samples[1],
                                        ItemNames(chain.arg.items)[i])

\* C14 witness: three samples holding the same value were averaged, and two
\* items were averaged side by side.
C14_Witness ==
    /\ AveragingCall /\ ConstantItems /\ chain.err = "none"
    /\ Len(chain.arg.samples) = 3
    /\ chain.arg.items = ListVal(<<"amp_alm", "amp_lmax">>)
    /\ chain.ret[1] # chain.ret[2]

\* ------------------------------------------------- component calls: claims C15-C20
ComponentCalled == last.op = "comp.__call__"

\* The delta emission of a diffuse component: amplitude times SED at the
\* one frequency, per row.
AmpTimesSED(component, freqs) ==
    [k \in DOMAIN AmpRows(component) |-> AmpRows(component)[k] * FreqScaling(freqs)]

\* C15: a component call with exactly one frequency takes the delta-emission
\* path (for a diffuse component the rows are amplitude times SED at that
\* frequency), a call with more than one frequency takes the bandpass path,
\* and a call whose bandpass has a single frequency sample gives the result
\* of the delta evaluation at that sample.
C15_PathByFrequencyCount ==
    ComponentCalled =>
        LET a == last.arg
        IN  /\ Len(a.freqs.v) = 1 => last.ret.path = "delta"
            /\ Len(a.freqs.v) > 1 => last.ret.path = "bandpass"
            /\ (Len(a.freqs.v) = 1 /\ Kind(a.component) = "diffuse") =>
                  /\ last.err = "none"
                  /\ last.ret.cols = AmpTimesSED(a.component, a.freqs)
            /\ Len(a.freqs.v) = 1 =>
                  last.ret = ComponentCall(a.component, ScalarFreq(a.freqs.v[1]),
                                           None, a.fwhm)

\* A call with a bandpass of one sample returned the delta emission.
C15_Witness ==
    /\ ComponentCalled
    /\ last.arg.freqs.nd = 1
    /\ Len(last.arg.freqs.v) = 1
    /\ last.arg.bandpass # None
    /\ last.err = "none"
    /\ last.ret.path = "delta"

\* The number of top-hat warnings among the warnings of a call.
TopHatWarnings(warnings) ==
    Cardinality({i \in DOMAIN warnings : warnings[i] = "top-hat"})

\* A call with several frequencies and without a bandpass.
NoBandpassCall ==
    /\ ComponentCalled
    /\ Len(last.arg.freqs.v) > 1
    /\ last.arg.bandpass = None

\* C16 as stated: every multi-frequency call without a bandpass emits exactly
\* one top-hat warning and returns an emission map, and a call that passes a
\* bandpass emits no such warning.
C16_TopHatAlwaysReturns ==
    /\ NoBandpassCall =>
          /\ TopHatWarnings(last.ret.warnings) = 1
          /\ last.err = "none"
    /\ (ComponentCalled /\ last.arg.bandpass # None) =>
          TopHatWarnings(last.ret.warnings) = 0

\* C16: every multi-frequency call without a bandpass integrates over the
\* uniform profile and emits exactly one top-hat warning, which never ends the
\* call: the call returns an emission map unless the bandpass scaling or the
\* rasterization raises, exactly as the same call with the uniform profile
\* passed does; a call that passes a bandpass emits no such warning.
C16_TopHatWarnsOnce ==
    /\ NoBandpassCall =>
          LET a == last.arg
              uniform == ComponentCall(a.component, a.freqs,
                                       ArrayVal([i \in DOMAIN a.freqs.v |-> 1]), a.fwhm)
          IN  /\ TopHatWarnings(last.ret.warnings) = 1
              /\ last.ret.warnings[1] = "top-hat"
              /\ last.err = uniform.err
              /\ last.ret.cols = uniform.cols
              /\ last.err = "none" <=>
                    /\ GridDim(a.component) <= 2
                    /\ Kind(a.component) = "point" =>
                          (a.fwhm = 0 \/ a.fwhm >= PixRes(a.component.nside))
    /\ (ComponentCalled /\ last.arg.bandpass # None) =>
          TopHatWarnings(last.ret.warnings) = 0

\* A multi-frequency call without a bandpass warned and returned a map.
C16_Witness ==
    /\ NoBandpassCall
    /\ last.err = "none"
    /\ last.ret.warned
    /\ last.ret.cols # <<>>

RasterCalled == last.op = "comp._points_to_map"

\* The sigma _points_to_map works with: the argument, or that of the beam.
Sigma(fwhm, sigma) == IF sigma = None THEN fwhm ELSE sigma.v

\* A rasterization without a beam.
NoBeamCall == RasterCalled /\ Sigma(last.arg.fwhm, last.arg.sigma) = 0

\* The sum of the amplitudes of the sources that fall in pixel p.
AccumulateAt(coords, amp, p) ==
    SumSeq([i \in DOMAIN coords |-> IF coords[i] = p THEN amp[i] ELSE 0])

\* C17: in a rasterization without a beam (sigma = 0) every pixel of the map
\* holds the sum of the amplitudes of the sources that fall in it: amplitudes
\* of sources in one pixel accumulate, and a pixel without source is zero.
C17_NoBeamAccumulates ==
    NoBeamCall =>
        /\ last.err = "none"
        /\ \A p \in 1..NPix(last.arg.component.nside) :
              last.ret.map[p] =
                  AccumulateAt(last.arg.component.coords, last.arg.component.amp, p)

\* C17 failing case: two sources with amplitudes 1 and 2 fall in pixel 1 and
\* the map holds 2 there.
C17_Witness ==
    /\ NoBeamCall
    /\ last.arg.component.coords = <<1, 1>>
    /\ last.arg.component.amp = <<1, 2>>
    /\ last.err = "none"
    /\ last.ret.map[1] = 2

\* A rasterization with a beam.
BeamCall == RasterCalled /\ Sigma(last.arg.fwhm, last.arg.sigma) > 0

\* C18: in a rasterization with sigma > 0, a beam narrower than the pixel
\* resolution of the map raises the beam error (a ValueError) before any
\* source is deposited and no map is returned; a beam at least as wide as
\* the pixel resolution never raises: every source is deposited and the map
\* is returned. The same holds for the rasterization made by a component
\* call whose scaling is computed.
C18_NarrowBeamRaisesFirst ==
    /\ BeamCall =>
          IF last.arg.fwhm < PixRes(last.arg.component.nside)
          THEN /\ last.err = "ValueError"
               /\ last.ret.map = None
               /\ last.ret.deposits = <<>>
          ELSE /\ last.err = "none"
               /\ last.ret.map # None
               /\ Len(last.ret.deposits) = Len(last.arg.component.coords)
    /\ (/\ ComponentCalled
        /\ Kind(last.arg.component) = "point"
        /\ last.arg.fwhm > 0
        /\ (Len(last.arg.freqs.v) > 1 => GridDim(last.arg.component) <= 2)) =>
          IF last.arg.fwhm < PixRes(last.arg.component.nside)
          THEN last.err = "ValueError" /\ last.ret.cols = <<>> /\ last.ret.deposits = <<>>
          ELSE last.err = "none" /\ last.ret.cols # <<>>

\* A beam of width 1 on a map of pixel resolution 2 raised.
C18_Witness ==
    /\ BeamCall
    /\ last.arg.fwhm = 1
    /\ PixRes(last.arg.component.nside) = 2
    /\ last.err = "ValueError"

ScalingCalled == last.op = "comp._get_bandpass_scaling"

\* C19: the bandpass scaling of a component is chosen by the number d of its
\* spatially varying spectral parameters: d = 0 is the trapezoidal quadrature
\* of SED times bandpass over the frequencies, d = 1 the 1D interpolation,
\* d = 2 the 2D interpolation, and d > 2 raises NotImplementedError and gives
\* no scaling; a bandpass evaluation of such a component raises the same.
C19_ScalingByGridDimension ==
    /\ ScalingCalled =>
          LET a == last.arg
              d == GridDim(a.component)
          IN  /\ d = 0 => /\ last.err = "none"
                          /\ last.ret.method = "trapz"
                          /\ last.ret.v =
                               Trapz([i \in DOMAIN a.freqs.v |->
                                         FreqScaling(ScalarFreq(a.freqs.v[i]))
                                             * a.bandpass.v[i]],
                                     a.freqs.v)
              /\ d = 1 => last.err = "none" /\ last.ret.method = "interp1d"
              /\ d = 2 => last.err = "none" /\ last.ret.method = "interp2d"
              /\ d > 2 => /\ last.err = "NotImplementedError"
                          /\ last.ret.method = "none"
                          /\ last.ret.v = None
    /\ (ComponentCalled /\ Len(last.arg.freqs.v) > 1
            /\ GridDim(last.arg.component) > 2) =>
          last.err = "NotImplementedError" /\ last.ret.cols = <<>>

\* A component with three spatially varying parameters got no scaling.
C19_Witness ==
    /\ ScalingCalled
    /\ GridDim(last.arg.component) = 3
    /\ last.err = "NotImplementedError"

\* A call of _read_coords on a catalog file that exists.
CatalogRead == last.op = "comp._read_coords" /\ last.arg.catalog # None

\* C20: reading a catalog returns the coordinates of its rows when the number
\* of rows equals the number of sources of the component, and for any other
\* number of rows raises the mismatch error (a ValueError) and returns no
\* coordinates.
C20_RowCountDecides ==
    CatalogRead =>
        IF Len(last.arg.catalog.rows) = Len(last.arg.component.amp)
        THEN last.err = "none" /\ last.ret = last.arg.catalog.rows
        ELSE last.err = "ValueError" /\ last.ret = None

\* C20 failing case: a catalog of one row read for a component of one source
\* raised the mismatch error.
C20_Witness ==
    /\ CatalogRead
    /\ Len(last.arg.catalog.rows) = 1
    /\ Len(last.arg.component.amp) = 1
    /\ last.err = "ValueError"
    /\ last.ret = None

ExpectedSource(params, items, arg) ==
    IF Mappings(arg) \in params THEN "parameters"
    ELSE IF (Mappings(arg) \o "_alm") \in items THEN "alm"
    ELSE IF Mappings(arg) \in items THEN "item"
    ELSE IF (Mappings(arg) \o "_map") \in items THEN "map"
    ELSE "missing"

\* A call of comp_from_chain of sky/chain/model.py.
NewCompCall == chain.op = "comp_from_chain"
\* A call of comp_from_chain of tools/h5.py for a component of the file,
\* averaging over all samples.
OldCompCall ==
    /\ chain.op = "h5.comp_from_chain"
    /\ chain.arg.component \in SeqRange(chain.arg.file.comps)
    /\ chain.arg.sample = None
    /\ chain.arg.burn_in = None

\* comp_from_chain of sky/chain/model.py resolves every argument as C22 states.
NewLoaderResolves ==
    NewCompCall =>
        LET ch == chain.arg.chain
        IN  IF \A n \in DOMAIN ClassArgs :
                  ExpectedSource(ch.params, ch.items, ClassArgs[n]) # "missing"
            THEN /\ chain.err = "none"
                 /\ \A n \in DOMAIN ClassArgs :
                       /\ chain.ret.args[n].arg = ClassArgs[n]
                       /\ chain.ret.args[n].from =
                              ExpectedSource(ch.params, ch.items, ClassArgs[n])
            ELSE chain.err = "ChainKeyError" /\ chain.ret = None

\* C22: for each constructor argument, comp_from_chain (of either loader)
\* takes the value from the component's static parameters when the renamed
\* field is there; otherwise from the first of the sample items <arg>_alm,
\* <arg>, <arg>_map that exists; when none exists it raises the key error and
\* builds no component.
C22_ResolutionOrder ==
    /\ NewLoaderResolves
    /\ OldCompCall =>
          LET file == chain.arg.file
          IN  IF ExpectedSource({"nu_ref"}, file.items, "amp") = "missing"
              THEN chain.err = "KeyError" /\ chain.ret = None
              ELSE /\ chain.err = "none"
                   /\ chain.ret.amp.from = ExpectedSource({"nu_ref"}, file.items, "amp")

\* C22 failing case: the file holds the item 'amp' for the component, and
\* comp_from_chain of tools/h5.py raised KeyError and built no component.
C22_Witness ==
    /\ OldCompCall
    /\ chain.arg.file.items = {"amp"}
    /\ chain.err = "KeyError"
    /\ chain.ret = None

\* A call of comp_from_chain of tools/h5.py that returned a component whose
\* amp was stored as coefficients.
OldAlmReturned ==
    /\ chain.op = "h5.comp_from_chain"
    /\ chain.err = "none"
    /\ chain.ret.amp.from = "alm"

\* comp_from_chain of sky/chain/model.py passes pol as C23 states.
NewLoaderPolFlag ==
    (NewCompCall /\ chain.err = "none") =>
        \A n \in DOMAIN chain.ret.args :
            chain.ret.args[n].from = "alm" =>
                chain.ret.args[n].value.pol =
                    (chain.ret.args[n].arg = "amp" /\ chain.arg.chain.rows = 3)

\* C23: when coefficients are transformed to a map (by either loader), the
\* polarization flag passed to the transform is true exactly when the
\* argument is 'amp' and the component has three channels, and false for every
\* other argument.
C23_PolFlag ==
    /\ NewLoaderPolFlag
    /\ OldAlmReturned => chain.ret.amp.pol = chain.arg.file.pol

\* C23 failing case: the amp coefficients of a polarized component were
\* transformed by tools/h5.py with the flag false.
C23_Witness ==
    /\ OldAlmReturned
    /\ chain.arg.file.pol
    /\ chain.ret.amp.pol = FALSE

\* The samples a call of comp_from_chain of tools/h5.py selects: all samples
\* from the burn_in position on, or the one sample given.
OldSelected ==
    IF chain.arg.sample = None
    THEN IF chain.arg.burn_in = None THEN GetSamples(chain.arg.file)
         ELSE SubSeq(GetSamples(chain.arg.file), chain.arg.burn_in.v + 1,
                     Len(GetSamples(chain.arg.file)))
    ELSE IF chain.arg.sample.t = "int" THEN <<IntToSample(chain.arg.sample.v)>>
    ELSE <<chain.arg.sample.v>>

\* The mean of the per-sample values of an item over the samples.
MeanOver(file, samples, item) ==
    IF Len(samples) = 1 THEN H5Value(file, samples[1], item)
    ELSE FloatDiv(SumOver(file, samples, item, Len(samples)), Len(samples))

\* C24: every argument stored as coefficients is averaged over the selected
\* samples first and transformed to a map afterwards: the value a loader
\* returns for it is one transform, applied to the mean of the per-sample
\* coefficients, and every selected sample's coefficients are read once,
\* whatever the number of samples; a call that raises transforms nothing.
C24_AverageThenTransform ==
    /\ (NewCompCall /\ chain.err = "none") =>
          \A n \in DOMAIN chain.ret.args :
              chain.ret.args[n].from = "alm" =>
                  /\ chain.ret.args[n].value.op = "alm2map"
                  /\ chain.ret.args[n].value.of =
                        ChainMean(chain.arg.label,
                                  Mappings(chain.ret.args[n].arg) \o "_alm",
                                  chain.arg.samples)
    /\ OldAlmReturned =>
          /\ chain.ret.amp.v = MeanOver(chain.arg.file, OldSelected, "amp_alm")
          /\ \A i \in DOMAIN OldSelected :
                Cardinality({k \in DOMAIN chain.reads :
                                chain.reads[k] = ItemRead(OldSelected[i], "amp_alm")}) = 1
    /\ (chain.op \in {"comp_from_chain", "h5.comp_from_chain"} /\ chain.err # "none") =>
          chain.ret = None

\* The coefficients of three samples were averaged and transformed by
\* tools/h5.py.
C24_Witness ==
    /\ OldAlmReturned
    /\ Len(OldSelected) = 3
    /\ chain.ret.amp.v = MeanOver(chain.arg.file, OldSelected, "amp_alm")


\* ------------------------------------------------- beam rasterization: claim C25
\* A rasterization with a beam that returned a map.
BeamMapReturned == BeamCall /\ last.err = "none"

\* The orders in which the n sources can be processed.
SourceOrders(n) == {o \in [1..n -> 1..n] : \A i, j \in 1..n : o[i] = o[j] => i = j}

\* The sources within r_max = 2 fwhm of pixel p.
Reaching(component, fwhm, p) ==
    {i \in DOMAIN component.coords :
        PixDist(component.coords[i], p, NPix(component.nside)) <= 2 * fwhm}

\* Every source was deposited once, on the pixels within r_max of it and on
\* no other.
DepositedOnceWithinCut ==
    LET c == last.arg.component
    IN  /\ Len(last.ret.deposits) = Len(c.coords)
        /\ \A i \in DOMAIN c.coords :
              /\ last.ret.deposits[i].source = i
              /\ last.ret.deposits[i].pixels =
                    {p \in 1..NPix(c.nside) : i \in Reaching(c, last.arg.fwhm, p)}

\* Pixel p of the map as the beam loop over the order o leaves it.
PixelInOrder(o, p) ==
    LET c == last.arg.component
    IN  AddBeams(c.nside, c.coords, c.amp, 2 * last.arg.fwhm,
                 Sigma(last.arg.fwhm, last.arg.sigma), o, p, Len(c.coords))

\* The exact sum of the kernel-weighted amplitudes of the sources reaching p.
ExactBeamSum(p) ==
    LET c == last.arg.component
    IN  SumSeq([i \in DOMAIN c.coords |->
                  IF i \in Reaching(c, last.arg.fwhm, p)
                  THEN c.amp[i] * Beam(PixDist(c.coords[i], p, NPix(c.nside)),
                                       Sigma(last.arg.fwhm, last.arg.sigma))
                  ELSE 0])

\* Pixel p holds the exact sum up to the rounding of the k products and the
\* k additions of its k contributions.
SumUpToRounding(p) ==
    LET k == Cardinality(Reaching(last.arg.component, last.arg.fwhm, p))
        e == 2^MantissaBits
    IN  Abs(last.ret.map[p] - ExactBeamSum(p)) * e^k
            <= ExactBeamSum(p) * ((e + 1)^k - e^k)

\* C25 as stated: in a rasterization with sigma > 0 every source adds its
\* kernel-weighted amplitude exactly once to each pixel within r_max of it
\* and to no other pixel, and the map is the same in whatever order the
\* sources are processed.
C25_OrderIndependent ==
    BeamMapReturned =>
        /\ DepositedOnceWithinCut
        /\ \A o \in SourceOrders(Len(last.arg.component.coords)),
              p \in 1..NPix(last.arg.component.nside) :
                 last.ret.map[p] = PixelInOrder(o, p)

\* C25 amended: every source adds its kernel-weighted amplitude exactly once
\* to each pixel within r_max of it and to no other pixel; every pixel holds
\* the sum of its contributions up to floating-point rounding, and the same
\* value in whatever order the sources are processed when at most two
\* sources reach it.
C25_OrderIndependentUpToRounding ==
    BeamMapReturned =>
        /\ DepositedOnceWithinCut
        /\ \A p \in 1..NPix(last.arg.component.nside) :
              /\ SumUpToRounding(p)
              /\ Cardinality(Reaching(last.arg.component, last.arg.fwhm, p)) <= 2 =>
                    \A o \in SourceOrders(Len(last.arg.component.coords)) :
                        last.ret.map[p] = PixelInOrder(o, p)

\* C25 witness: three sources reach one pixel, which holds another value when
\* the sources are processed last to first, while a pixel of the map is
\* reached by no source.
C25_Witness ==
    /\ BeamMapReturned
    /\ Len(last.arg.component.coords) = 3
    /\ \E p \in 1..NPix(last.arg.component.nside) :
          /\ Cardinality(Reaching(last.arg.component, last.arg.fwhm, p)) = 3
          /\ last.ret.map[p] # PixelInOrder(<<3, 2, 1>>, p)
    /\ \E p \in 1..NPix(last.arg.component.nside) :
          Reaching(last.arg.component, last.arg.fwhm, p) = {}


\* ------------------------------------------------- reference frequency: claims C26, C28
\* A component was constructed with a reference frequency of n values.
InitWith(n) ==
    /\ last.op = "comp.__init__"
    /\ last.arg.freq_ref # None
    /\ Len(last.arg.freq_ref.v) = n

\* The reference frequency stored is the column of the rows v.
StoredColumn(v) == last.err = "none" /\ last.ret.freq_ref = ShapedArray(<<Len(v), 1>>, v)

\* The rows (I, P, P) of the two values (I, P) given.
RowsIPP == <<last.arg.freq_ref.v[1], last.arg.freq_ref.v[2], last.arg.freq_ref.v[2]>>

\* C26 as stated: the reference frequency of a component is always stored
\* reshaped to (channels, 1): two values (I, P) become the rows (I, P, P),
\* three values three rows, a single value one row, and more than three
\* values raise an error.
C26_StoredAsColumn ==
    /\ InitWith(1) => StoredColumn(last.arg.freq_ref.v)
    /\ InitWith(2) => StoredColumn(RowsIPP)
    /\ InitWith(3) => StoredColumn(last.arg.freq_ref.v)
    /\ InitWith(4) => last.err = "ValueError"

\* C26 amended: two values (I, P) are stored as the column of rows (I, P, P),
\* three values as a column of three rows, a single value is stored as it is
\* given, in its own shape (a scalar stays a scalar), None is stored as None,
\* and an input of no value or of more than three values raises ValueError
\* and no component is made.
C26_StoredBroadcastable ==
    /\ InitWith(1) => last.err = "none" /\ last.ret.freq_ref = last.arg.freq_ref
    /\ InitWith(2) => StoredColumn(RowsIPP)
    /\ InitWith(3) => StoredColumn(last.arg.freq_ref.v)
    /\ (InitWith(4) \/ InitWith(0)) => last.err = "ValueError" /\ last.ret = None
    /\ (last.op = "comp.__init__" /\ last.arg.freq_ref = None) =>
          last.err = "none" /\ last.ret.freq_ref = None

\* C26 witness: a component was constructed with a scalar reference
\* frequency, which is stored as a scalar.
C26_Witness ==
    /\ InitWith(1)
    /\ last.arg.freq_ref.shape = <<>>
    /\ last.err = "none"
    /\ last.ret.freq_ref.shape = <<>>


\* ------------------------------------------------- beam smoothing: claim C27
\* A component call that returned an emission.
EmissionReturned == ComponentCalled /\ last.err = "none"

\* The rows of the emission passed to hp.smoothing, rows counted from 1.
SmoothedRows == last.ret.smoothed

\* C27: the emission of a component call is smoothed exactly when the beam
\* FWHM is nonzero and the component is diffuse: with FWHM 0 no row is
\* smoothed, no row of a point-source emission is ever smoothed, all three
\* rows of a polarized diffuse emission are smoothed, and only the first row
\* of an unpolarized one.
C27_SmoothingWhenDiffuseAndBeam ==
    EmissionReturned =>
        LET c == last.arg.component
        IN  /\ SmoothedRows # {} <=> (last.arg.fwhm # 0 /\ Kind(c) = "diffuse")
            /\ last.arg.fwhm = 0 => SmoothedRows = {}
            /\ Kind(c) = "point" => SmoothedRows = {}
            /\ (last.arg.fwhm # 0 /\ Kind(c) = "diffuse") =>
                  SmoothedRows = IF Len(AmpRows(c)) = 3 THEN {1, 2, 3} ELSE {1}

\* C27 witness: a point-source component was evaluated with a beam and a map
\* was returned, no row of it smoothed.
C27_Witness ==
    /\ EmissionReturned
    /\ Kind(last.arg.component) = "point"
    /\ last.arg.fwhm # 0
    /\ last.ret.cols # <<>>
    /\ SmoothedRows = {}


\* ------------------------------------------------- loader and reshape: claim C28
\* comp_from_chain of tools/h5.py returned a component.
OldCompReturned == chain.op = "h5.comp_from_chain" /\ chain.err = "none"

\* parameters['nu_ref'] of the archive read.
ArchiveNuRef == chain.arg.file.nu_ref

\* C28: the reference frequency the loader of tools/h5.py passes, reshaped
\* by the component constructor, is for a polarized component the column of
\* the archive's first two values with the second repeated, which is the
\* archive's (I, Q, U) whenever Q = U there; for an unpolarized component it
\* is the first value alone.
C28_DropThenReshape ==
    OldCompReturned =>
        IF chain.arg.file.pol
        THEN /\ chain.ret.freq_ref =
                   ShapedArray(<<3, 1>>, <<ArchiveNuRef[1], ArchiveNuRef[2], ArchiveNuRef[2]>>)
             /\ ArchiveNuRef[2] = ArchiveNuRef[3] =>
                   chain.ret.freq_ref = ShapedArray(<<3, 1>>, ArchiveNuRef)
        ELSE /\ chain.ret.freq_ref.v = <<ArchiveNuRef[1]>>
             /\ chain.ret.freq_ref.shape = <<>>

\* C28 witness: a polarized component was loaded from an archive holding
\* (2, 1, 1) and stores the rows 2, 1, 1.
C28_Witness ==
    /\ OldCompReturned
    /\ chain.arg.file.pol
    /\ ArchiveNuRef = <<2, 1, 1>>
    /\ chain.ret.freq_ref.v = <<2, 1, 1>>
    /\ chain.ret.freq_ref.shape = <<3, 1>>


\* ------------------------------------------------- attributes and mapping: claim C29
\* The attribute `name` of the model is bound to the component the mapping
\* holds under that name, and is not set when the mapping has no such key.
AttributeMirrorsKey(name) ==
    IF DictHas(SelfComponents(attrs).d, name)
    THEN attrs[name] = CompVal(DictGet(SelfComponents(attrs).d, name))
    ELSE attrs[name] = Absent

\* C29: after any sequence of insert and remove calls the model's attribute
\* `components` holds the mapping and `nside` the resolution (an integer, or
\* None while unset), whatever the names of the components inserted, and for
\* every component name the model has an attribute of that name bound to the
\* component exactly when the name is a key of the mapping.
C29_AttributesMirrorMapping ==
    /\ SelfComponents(attrs).t = "dict"
    /\ SelfNside(attrs).t \in {"None", "int"}
    /\ \A name \in AttrNames \ ModelAttrs : AttributeMirrorsKey(name)

\* C29 failing case: a component named 'nside' was inserted without an error
\* and the attribute `nside` of the model is now that component.
C29_Witness ==
    /\ last.op = "insert"
    /\ last.err = "none"
    /\ last.arg.name = "nside"
    /\ SelfNside(last.pre) = None
    /\ SelfNside(attrs) = CompVal(last.arg)
    /\ DictHas(SelfComponents(attrs).d, "nside")


\* ------------------------------------------------- unpacking: claim C30
\* unpack_alms_from_chain is running or has returned.
Unpacking == chain.op = "unpack_alms_from_chain"

\* The slots a row must hold when it is done: index l^2+l alone for the real
\* m = 0 coefficient of every l, and the pair l^2+l+m, l^2+l-m as real and
\* imaginary part of the coefficient (l, m), 1 <= m <= l, divided by sqrt(2).
ExpectedSlots(lmax) ==
    {[re |-> l * l + l, im |-> -1, scaled |-> FALSE] : l \in 0..lmax}
        \cup {[re |-> p[1] * p[1] + p[1] + p[2], im |-> p[1] * p[1] + p[1] - p[2],
               scaled |-> TRUE] :
                 p \in {q \in (1..lmax) \X (1..lmax) : q[2] <= q[1]}}

\* C30: unpack_alms_from_chain never reads or writes outside its arrays and
\* never writes a slot or reads an input index twice; when it returns, for
\* every row each of the (lmax+1)(lmax+2)/2 slots was written exactly once,
\* the write index ended at the allocated length, each of the (lmax+1)^2
\* input indices was read exactly once, and the slots hold index l^2+l as the
\* real m = 0 coefficient and the pair l^2+l+m, l^2+l-m as real and imaginary
\* part of the coefficient (l, m).
C30_UnpackWritesAndReadsOnce ==
    Unpacking =>
        LET lmax == chain.arg.lmax
            rows == 0..(chain.arg.n - 1)
        IN  /\ chain.pc # "undefined"
            /\ NAlms(lmax) * 2 = (lmax + 1) * (lmax + 2)
            /\ \A s \in rows :
                  /\ DOMAIN chain.read[s] = 0..((lmax + 1)^2 - 1)
                  /\ \A k \in DOMAIN chain.written[s] : chain.written[s][k] <= 1
                  /\ \A j \in DOMAIN chain.read[s] : chain.read[s][j] <= 1
            /\ chain.pc = "done" =>
                  /\ Len(chain.ends) = chain.arg.n
                  /\ \A s \in rows :
                        /\ chain.ends[s + 1] = NAlms(lmax)
                        /\ \A k \in 0..(NAlms(lmax) - 1) : chain.written[s][k] = 1
                        /\ \A j \in 0..((lmax + 1)^2 - 1) : chain.read[s][j] = 1
                        /\ {chain.ret[s][k] : k \in 0..(NAlms(lmax) - 1)}
                              = ExpectedSlots(lmax)

\* C30 witness: two rows were unpacked with lmax = 3 and the call returned
\* its ten slots per row, the last one holding the coefficient (3, 3).
C30_Witness ==
    /\ Unpacking
    /\ chain.pc = "done"
    /\ chain.arg.n = 2
    /\ chain.arg.lmax = 3
    /\ chain.ends = <<10, 10>>
    /\ chain.ret[1][9] = [re |-> 15, im |-> 9, scaled |-> TRUE]

====
